---- MODULE Spec2Model ----
(***************************************************************************)
(* Model of the mception configuration service                             *)
(* (mception-server/src/services/config.rs) with its two stores.           *)
(*                                                                         *)
(* The service owns one ServerConfig behind a tokio RwLock.  Handlers run  *)
(* as concurrent tasks; a task can be descheduled at every .await, so each *)
(* handler is cut at its lock acquisitions and at its storage calls:       *)
(*                                                                         *)
(*   mutating:  wlock -> edit -> audit -> slock -> save (serialize,       *)
(*              write) -> done                                             *)
(*   get:       rlock -> read -> raudit -> done                            *)
(*   list/snapshot/projection:  rlock -> read -> done                      *)
(*   get_audit_logs:  load -> (init -> initw ->) done                      *)
(*   backup_configuration:  backup -> done                                 *)
(*                                                                         *)
(* Code between two awaits runs without interruption as far as the other   *)
(* tasks can see and is one action.                                        *)
(***************************************************************************)
EXTENDS Integers, Sequences, FiniteSets, TLC

----------------------------------------------------------------------------
(* Bounds of the model. *)

\* concurrent request tasks
MaxProcs == 2
\* service calls started in one run
MaxCalls == 2
\* largest value of the wall clock
MaxClock == 1
\* storage calls (audit append, config write) that fail in one run
MaxFaults == 1
\* longest allowed_mcp_ids list a createAgent request carries
MaxAllow == 2

Procs == 1..MaxProcs

\* Identifiers used as keys.  Leaf entries and agents have separate maps, so
\* one id can name a leaf entry and an agent at the same time.
Ids == {"m1", "m2"}

----------------------------------------------------------------------------
(* serde_json::Value.  Every value is a record tagged by its kind k.       *)

JNull == [k |-> "null"]
JStr(s) == [k |-> "str", s |-> s]
JArr(a) == [k |-> "arr", a |-> a]
JObj(o) == [k |-> "obj", o |-> o]

\* Option<T> of the typed structs: <<>> is None, <<x>> is Some(x).
None == <<>>
Some(x) == <<x>>

\* Variant: a key whose old and new values are both objects is merged key
\* by key instead of replaced.
MergeKeys_Deep(config_map, updates_map) ==
    [key \in (DOMAIN config_map) \cup (DOMAIN updates_map) |->
        IF key \notin DOMAIN updates_map THEN config_map[key]
        ELSE IF key \in DOMAIN config_map /\ config_map[key].k = "obj"
                /\ updates_map[key].k = "obj"
        THEN JObj([k2 \in (DOMAIN config_map[key].o) \cup (DOMAIN updates_map[key].o) |->
                  IF k2 \in DOMAIN updates_map[key].o
                  THEN updates_map[key].o[k2] ELSE config_map[key].o[k2]])
        ELSE updates_map[key]]

\* Map.insert for every key of the patch: the patch's value replaces the
\* value of the key as a whole, other keys keep theirs.
MergeKeys(config_map, updates_map) ==
    [key \in (DOMAIN config_map) \cup (DOMAIN updates_map) |->
        IF key \in DOMAIN updates_map THEN updates_map[key] ELSE config_map[key]]

----------------------------------------------------------------------------
(* The typed resources and their serde conversions.  Of LeafMcpConfig the  *)
(* model keeps id, description (an Option<String>) and transport (a        *)
(* required nested enum); of AgentConfig it keeps agent_id, description    *)
(* and allowed_mcp_ids.  The fields left out (name, is_local,              *)
(* reachable_by_agent, is_connected, last_seen, config) are further        *)
(* top-level keys, converted and merged exactly like these.                *)

Stdio(command) == [tag |-> "Stdio", command |-> command]
Https(url) == [tag |-> "Https", url |-> url]

LeafMcpConfig(id, description, transport) ==
    [id |-> id, description |-> description, transport |-> transport]

AgentConfig(agent_id, description, allowed_mcp_ids) ==
    [agent_id |-> agent_id, description |-> description,
     allowed_mcp_ids |-> allowed_mcp_ids]

OptToValue(opt) == IF opt = None THEN JNull ELSE JStr(opt[1])

\* #[serde(tag = "type", rename_all = "lowercase")]
TransportToValue(t) ==
    IF t.tag = "Stdio"
    THEN JObj([type |-> JStr("stdio"), command |-> JStr(t.command)])
    ELSE JObj([type |-> JStr("https"), url |-> JStr(t.url)])

LeafToValue(c) ==
    JObj([id |-> JStr(c.id),
          description |-> OptToValue(c.description),
          transport |-> TransportToValue(c.transport)])

AgentToValue(c) ==
    JObj([agent_id |-> JStr(c.agent_id),
          description |-> OptToValue(c.description),
          allowed_mcp_ids |->
              JArr([i \in DOMAIN c.allowed_mcp_ids |-> JStr(c.allowed_mcp_ids[i])])])

\* Deserialize: a required key must be present with the right type, an
\* Option key may be absent or null, unknown keys are ignored.
IsStr(v) == v.k = "str"

HasStr(o, key) == key \in DOMAIN o /\ IsStr(o[key])

OptOk(o, key) == key \notin DOMAIN o \/ o[key].k \in {"null", "str"}

OptFromValue(o, key) ==
    IF key \in DOMAIN o /\ o[key].k = "str" THEN Some(o[key].s) ELSE None

TransportOk(v) ==
    /\ v.k = "obj"
    /\ HasStr(v.o, "type")
    /\ \/ v.o["type"].s = "stdio" /\ HasStr(v.o, "command")
       \/ v.o["type"].s = "https" /\ HasStr(v.o, "url")

TransportFromValue(v) ==
    IF v.o["type"].s = "stdio" THEN Stdio(v.o["command"].s) ELSE Https(v.o["url"].s)

LeafOk(o) ==
    /\ HasStr(o, "id")
    /\ OptOk(o, "description")
    /\ "transport" \in DOMAIN o /\ TransportOk(o["transport"])

LeafFromValue(o) ==
    LeafMcpConfig(o["id"].s, OptFromValue(o, "description"),
                  TransportFromValue(o["transport"]))

StrArrOk(v) == v.k = "arr" /\ \A i \in DOMAIN v.a : IsStr(v.a[i])

AgentOk(o) ==
    /\ HasStr(o, "agent_id")
    /\ OptOk(o, "description")
    /\ "allowed_mcp_ids" \in DOMAIN o /\ StrArrOk(o["allowed_mcp_ids"])

AgentFromValue(o) ==
    AgentConfig(o["agent_id"].s, OptFromValue(o, "description"),
                [i \in DOMAIN o["allowed_mcp_ids"].a |-> o["allowed_mcp_ids"].a[i].s])

----------------------------------------------------------------------------
(* ServerConfig and the edits the handlers make while they hold the writer *)
(* side of the lock.  A HashMap is a function on its key set.              *)

Insert(map, key, value) ==
    [x \in (DOMAIN map) \cup {key} |-> IF x = key THEN value ELSE map[x]]

Remove(map, key) == [x \in (DOMAIN map) \ {key} |-> map[x]]

EmptyMap == [x \in {} |-> None]

\* Vec::retain(|x| x != id)
Retain(list, id) == SelectSeq(list, LAMBDA x : x # id)

\* Vec::contains
Contains(list, id) == \E i \in DOMAIN list : list[i] = id

\* ServerConfig::default() at clock value t
DefaultConfig(t) ==
    [leaf_mcps |-> EmptyMap, agents |-> EmptyMap,
     metadata |-> [version |-> "0.1.0", created_at |-> t, last_modified |-> t]]

\* Variant: the edit leaves last_modified as it was.
update_last_modified_Skip(c, t) == c

update_last_modified(c, t) == [c EXCEPT !.metadata.last_modified = t]

\* What an edit hands back: the error it returns early with, or Ok and the
\* edited configuration; details is the payload of the audit entry.
Failed(c, error) == [result |-> error, config |-> c, details |-> JNull]
Edited(c, details) == [result |-> "Ok", config |-> c, details |-> details]

\* The existence check of create_agent and add_agent_allowed_mcp.
McpExists(c, mcp_id) ==
    mcp_id \in DOMAIN c.leaf_mcps \/ mcp_id \in DOMAIN c.agents

\* Variant: no check of the key, insert replaces an existing entry.
create_leaf_mcp_Overwrite(c, id, leaf) ==
    Edited([c EXCEPT !.leaf_mcps = Insert(@, id, leaf)], LeafToValue(leaf))

\* Variant: the stored entry takes the key as its id field.
create_leaf_mcp_KeyAsId(c, id, leaf) ==
    IF id \in DOMAIN c.leaf_mcps
    THEN Failed(c, "AlreadyExists")
    ELSE Edited([c EXCEPT !.leaf_mcps = Insert(@, id, [leaf EXCEPT !.id = id])],
                LeafToValue(leaf))

create_leaf_mcp(c, id, leaf) ==
    IF id \in DOMAIN c.leaf_mcps
    THEN Failed(c, "AlreadyExists")
    ELSE Edited([c EXCEPT !.leaf_mcps = Insert(@, id, leaf)], LeafToValue(leaf))

\* The shallow merge of update_leaf_mcp / update_agent: the resource is
\* serialized and every key of the patch is inserted into its map.
MergedLeaf(leaf, updates) == MergeKeys(LeafToValue(leaf).o, updates.o)

\* Variant: the entry is taken out of the map for the merge and is not put
\* back when the merged document does not deserialize.
update_leaf_mcp_EntryLost(c, id, updates) ==
    IF id \notin DOMAIN c.leaf_mcps THEN Failed(c, "NotFound")
    ELSE IF updates.k # "obj" THEN Edited(c, updates)
    ELSE LET merged == MergedLeaf(c.leaf_mcps[id], updates) IN
         IF ~LeafOk(merged)
         THEN Failed([c EXCEPT !.leaf_mcps = Remove(@, id)], "InvalidFormat")
         ELSE Edited([c EXCEPT !.leaf_mcps[id] = LeafFromValue(merged)], updates)

\* Variant: a patch that is not an object is refused.
update_leaf_mcp_ObjectOnly(c, id, updates) ==
    IF id \notin DOMAIN c.leaf_mcps THEN Failed(c, "NotFound")
    ELSE IF updates.k # "obj" THEN Failed(c, "InvalidFormat")
    ELSE LET merged == MergedLeaf(c.leaf_mcps[id], updates) IN
         IF ~LeafOk(merged) THEN Failed(c, "InvalidFormat")
         ELSE Edited([c EXCEPT !.leaf_mcps[id] = LeafFromValue(merged)], updates)

update_leaf_mcp(c, id, updates) ==
    IF id \notin DOMAIN c.leaf_mcps THEN Failed(c, "NotFound")
    ELSE IF updates.k # "obj" THEN Edited(c, updates)
    ELSE LET merged == MergedLeaf(c.leaf_mcps[id], updates) IN
         IF ~LeafOk(merged) THEN Failed(c, "InvalidFormat")
         ELSE Edited([c EXCEPT !.leaf_mcps[id] = LeafFromValue(merged)], updates)

\* Variant: the cascade is missing.
CascadeRemove_None(agents, id) == agents

\* The cascade of delete_leaf_mcp over agents.values_mut().
CascadeRemove(agents, id) ==
    [a \in DOMAIN agents |->
        [agents[a] EXCEPT !.allowed_mcp_ids = Retain(@, id)]]

\* delete_leaf_mcp, first statement: leaf_mcps.remove(id); the removed entry
\* is the payload of the audit entry.  The cascade follows in the same
\* critical section.
RemoveLeaf(c, id) ==
    IF id \notin DOMAIN c.leaf_mcps THEN Failed(c, "NotFound")
    ELSE Edited([c EXCEPT !.leaf_mcps = Remove(@, id)], LeafToValue(c.leaf_mcps[id]))

\* Variant: the agent is inserted before its targets are checked.
create_agent_InsertFirst(c, agent_id, allowed_mcp_ids) ==
    LET agent_config == AgentConfig(agent_id, None, allowed_mcp_ids)
        inserted == [c EXCEPT !.agents = Insert(@, agent_id, agent_config)] IN
    IF agent_id \in DOMAIN c.agents THEN Failed(c, "AlreadyExists")
    ELSE IF \E i \in DOMAIN allowed_mcp_ids : ~McpExists(c, allowed_mcp_ids[i])
    THEN Failed(inserted, "InvalidFormat")
    ELSE Edited(inserted, AgentToValue(agent_config))

create_agent(c, agent_id, allowed_mcp_ids) ==
    IF agent_id \in DOMAIN c.agents THEN Failed(c, "AlreadyExists")
    ELSE IF \E i \in DOMAIN allowed_mcp_ids : ~McpExists(c, allowed_mcp_ids[i])
    THEN Failed(c, "InvalidFormat")
    ELSE LET agent_config == AgentConfig(agent_id, None, allowed_mcp_ids) IN
         Edited([c EXCEPT !.agents = Insert(@, agent_id, agent_config)],
                AgentToValue(agent_config))

MergedAgent(agent, updates) == MergeKeys(AgentToValue(agent).o, updates.o)

update_agent(c, agent_id, updates) ==
    IF agent_id \notin DOMAIN c.agents THEN Failed(c, "NotFound")
    ELSE IF updates.k # "obj" THEN Edited(c, updates)
    ELSE LET merged == MergedAgent(c.agents[agent_id], updates) IN
         IF ~AgentOk(merged) THEN Failed(c, "InvalidFormat")
         ELSE Edited([c EXCEPT !.agents[agent_id] = AgentFromValue(merged)], updates)

\* Variant: deleting an agent that is not there succeeds.
delete_agent_Idempotent(c, agent_id) ==
    IF agent_id \notin DOMAIN c.agents THEN Edited(c, JNull)
    ELSE Edited([c EXCEPT !.agents = Remove(@, agent_id)],
                AgentToValue(c.agents[agent_id]))

delete_agent(c, agent_id) ==
    IF agent_id \notin DOMAIN c.agents THEN Failed(c, "NotFound")
    ELSE Edited([c EXCEPT !.agents = Remove(@, agent_id)],
                AgentToValue(c.agents[agent_id]))

\* Variant: the target is not looked up before it is pushed.
add_agent_allowed_mcp_NoCheck(c, agent_id, mcp_id) ==
    IF agent_id \notin DOMAIN c.agents THEN Failed(c, "NotFound")
    ELSE IF Contains(c.agents[agent_id].allowed_mcp_ids, mcp_id)
    THEN Failed(c, "AlreadyExists")
    ELSE Edited([c EXCEPT !.agents[agent_id].allowed_mcp_ids = Append(@, mcp_id)],
                JObj([mcp_id |-> JStr(mcp_id)]))

\* Variant: the agent is looked up before the target.
add_agent_allowed_mcp_AgentFirst(c, agent_id, mcp_id) ==
    IF agent_id \notin DOMAIN c.agents THEN Failed(c, "NotFound")
    ELSE IF ~McpExists(c, mcp_id) THEN Failed(c, "InvalidFormat")
    ELSE IF Contains(c.agents[agent_id].allowed_mcp_ids, mcp_id)
    THEN Failed(c, "AlreadyExists")
    ELSE Edited([c EXCEPT !.agents[agent_id].allowed_mcp_ids = Append(@, mcp_id)],
                JObj([mcp_id |-> JStr(mcp_id)]))

add_agent_allowed_mcp(c, agent_id, mcp_id) ==
    IF ~McpExists(c, mcp_id) THEN Failed(c, "InvalidFormat")
    ELSE IF agent_id \notin DOMAIN c.agents THEN Failed(c, "NotFound")
    ELSE IF Contains(c.agents[agent_id].allowed_mcp_ids, mcp_id)
    THEN Failed(c, "AlreadyExists")
    ELSE Edited([c EXCEPT !.agents[agent_id].allowed_mcp_ids = Append(@, mcp_id)],
                JObj([mcp_id |-> JStr(mcp_id)]))

remove_agent_allowed_mcp(c, agent_id, mcp_id) ==
    IF agent_id \notin DOMAIN c.agents THEN Failed(c, "NotFound")
    ELSE IF ~Contains(c.agents[agent_id].allowed_mcp_ids, mcp_id)
    THEN Failed(c, "NotFound")
    ELSE Edited([c EXCEPT !.agents[agent_id].allowed_mcp_ids = Retain(@, mcp_id)],
                JObj([mcp_id |-> JStr(mcp_id)]))

\* Variant: the loop looks among the agents first.
RECURSIVE RemoteMcps_AgentsFirst(_, _, _)
RemoteMcps_AgentsFirst(c, allowed_mcp_ids, remote_mcps) ==
    IF allowed_mcp_ids = <<>> THEN remote_mcps
    ELSE LET mcp_id == Head(allowed_mcp_ids) IN
         RemoteMcps_AgentsFirst(c, Tail(allowed_mcp_ids),
             IF mcp_id \in DOMAIN c.agents
             THEN Insert(remote_mcps, mcp_id, AgentToValue(c.agents[mcp_id]))
             ELSE IF mcp_id \in DOMAIN c.leaf_mcps
             THEN Insert(remote_mcps, mcp_id, LeafToValue(c.leaf_mcps[mcp_id]))
             ELSE remote_mcps)

\* get_agent_remote_config: the loop over the allow-list; each id is looked
\* up among the leaf entries first, then among the agents, and inserted into
\* the JSON map remote_mcps; an id found in neither is skipped.
RECURSIVE RemoteMcps(_, _, _)
RemoteMcps(c, allowed_mcp_ids, remote_mcps) ==
    IF allowed_mcp_ids = <<>> THEN remote_mcps
    ELSE LET mcp_id == Head(allowed_mcp_ids) IN
         RemoteMcps(c, Tail(allowed_mcp_ids),
             IF mcp_id \in DOMAIN c.leaf_mcps
             THEN Insert(remote_mcps, mcp_id, LeafToValue(c.leaf_mcps[mcp_id]))
             ELSE IF mcp_id \in DOMAIN c.agents
             THEN Insert(remote_mcps, mcp_id, AgentToValue(c.agents[mcp_id]))
             ELSE remote_mcps)

get_agent_remote_config(c, agent_id) ==
    IF agent_id \notin DOMAIN c.agents THEN [result |-> "NotFound", value |-> None]
    ELSE [result |-> "Ok",
          value |-> Some([agent_id |-> agent_id,
                          mcps |-> RemoteMcps(c, c.agents[agent_id].allowed_mcp_ids, EmptyMap),
                          metadata |-> [last_updated |-> c.metadata.last_modified,
                                        version |-> c.metadata.version]])]

----------------------------------------------------------------------------
(* The requests the tasks make. *)

\* str::trim().is_empty(), on the characters of the ids the model uses.
Chars(id) ==
    CASE id = "" -> <<>>
      [] id = " " -> <<" ">>
      [] id = "m1" -> <<"m", "1">>
      [] id = "m2" -> <<"m", "2">>
      [] OTHER -> <<"?">>

RECURSIVE TrimStart(_)
TrimStart(cs) ==
    IF cs # <<>> /\ Head(cs) = " " THEN TrimStart(Tail(cs)) ELSE cs

RECURSIVE TrimEnd(_)
TrimEnd(cs) ==
    IF cs # <<>> /\ cs[Len(cs)] = " " THEN TrimEnd(SubSeq(cs, 1, Len(cs) - 1)) ELSE cs

\* Variant: is_empty() without trim().
TrimIsEmpty_NoTrim(id) == Chars(id) = <<>>

TrimIsEmpty(id) == TrimEnd(TrimStart(Chars(id))) = <<>>

BlankIds == {"", " "}

LeafInputs ==
    {LeafMcpConfig("m1", None, Stdio("run")),
     LeafMcpConfig("m2", Some("d"), Https("url"))}

\* Patches of a leaf entry: one optional field; the nested transport as a
\* whole; a transport that lacks its required url; a patch that is no object.
LeafPatches ==
    {JObj([description |-> JStr("x")]),
     JObj([transport |-> JObj([type |-> JStr("https"), url |-> JStr("u2")])]),
     JObj([transport |-> JObj([type |-> JStr("https")])]),
     JStr("x")}

AgentPatches ==
    {JObj([allowed_mcp_ids |-> JArr(<<JStr(i)>>)]) : i \in Ids}
        \cup {JObj([allowed_mcp_ids |-> JStr("bogus")]), JNull}

AllowInputs == UNION {[1..n -> Ids] : n \in 0..MaxAllow}

MutatingOps ==
    {"create_leaf_mcp", "update_leaf_mcp", "delete_leaf_mcp", "create_agent",
     "update_agent", "delete_agent", "add_agent_allowed_mcp",
     "remove_agent_allowed_mcp"}

ReadOps ==
    {"get_leaf_mcp", "list_leaf_mcps", "get_agent", "list_agents",
     "get_configuration", "get_agent_remote_config"}

\* The operations that go to a store without touching the configuration.
StoreOps == {"get_audit_logs", "backup_configuration"}

\* One call: the operation, its arguments, and what the task has done so far.
\* uid stands for the Uuid the call's audit entry gets; edited, audited and
\* saved record the steps of the call that took effect; content is the part
\* of the document save_config has serialized so far; route is the handler
\* the request came to and confirmed its confirmation flag (should_create,
\* should_update, ..); op is the operation of the service the handler calls,
\* "none" when it calls none.
Request(op, id, mcp_id, leaf, allowed, updates) ==
    [op |-> op, id |-> id, mcp_id |-> mcp_id, leaf |-> leaf, allowed |-> allowed,
     updates |-> updates, uid |-> 0, result |-> "pending", value |-> None,
     details |-> JNull, edited |-> FALSE, audited |-> 0, saved |-> FALSE,
     content |-> None, route |-> op, confirmed |-> TRUE]

NoCall == Request("none", "", "", None, <<>>, JNull)

BlankLeaf == LeafMcpConfig("", None, Stdio("run"))

Requests ==
    {Request("create_leaf_mcp", id, "", Some(leaf), <<>>, JNull) :
        id \in Ids, leaf \in LeafInputs}
    \cup {Request("create_leaf_mcp", id, "", Some(BlankLeaf), <<>>, JNull) :
        id \in BlankIds}
    \cup {Request("update_leaf_mcp", id, "", None, <<>>, u) :
        id \in Ids, u \in LeafPatches}
    \cup {Request("delete_leaf_mcp", id, "", None, <<>>, JNull) : id \in Ids}
    \cup {Request("create_agent", id, "", None, allowed, JNull) :
        id \in Ids, allowed \in AllowInputs}
    \cup {Request("create_agent", id, "", None, <<>>, JNull) : id \in BlankIds}
    \cup {Request("update_agent", id, "", None, <<>>, u) :
        id \in Ids, u \in AgentPatches}
    \cup {Request("delete_agent", id, "", None, <<>>, JNull) : id \in Ids}
    \cup {Request(op, id, mcp_id, None, <<>>, JNull) :
        op \in {"add_agent_allowed_mcp", "remove_agent_allowed_mcp"},
        id \in Ids, mcp_id \in Ids}
    \cup {Request(op, id, "", None, <<>>, JNull) :
        op \in {"get_leaf_mcp", "get_agent", "get_agent_remote_config"}, id \in Ids}
    \cup {Request(op, "", "", None, <<>>, JNull) :
        op \in {"list_leaf_mcps", "list_agents", "get_configuration"}}
    \cup {Request(op, "", "", None, <<>>, JNull) : op \in StoreOps}
    \cup {[Request(op, "m1", "m1", None, <<>>, JNull) EXCEPT !.confirmed = FALSE] :
        op \in MutatingOps}

----------------------------------------------------------------------------
(* State. *)

VARIABLES
    config,     \* the ServerConfig inside the RwLock
    writer,     \* the task holding the writer side of the lock, 0 if none
    readers,    \* the tasks holding the reader side
    log,        \* the audit log file: the entries appended, in order
    persisted,  \* the configuration file: None, or Some(document)
    now,        \* the wall clock, Utc::now()
    pc,         \* where each task is in its handler
    call,       \* each task's current call
    ncalls,     \* calls started
    faults,     \* storage calls that failed
    applied,    \* uids of the calls whose edit was applied in memory
    stored,     \* uids of the calls whose edit the persisted document holds
    lastsave,   \* uid of the call whose save wrote the persisted document
    log_exists, \* whether the audit log file exists
    appended,   \* the entries append_entry has returned Ok for, in order
    backups,    \* the backup files: their path (a timestamp) and content
    query       \* the audit query of the command line: its input and result

vars ==
    <<config, writer, readers, log, persisted, now, pc, call, ncalls, faults,
      applied, stored, lastsave,
                   log_exists, appended, backups, query>>

\* What an earlier run of the server left in the two files.  Either nothing,
\* or the document and the log after the three calls
\*   create_leaf_mcp("m1", ..), create_agent("m2", ["m1"]),
\*   create_agent("m1", ["m1", "m2"])
\* of that run, whose audit entries carry the uids -2, -1 and 0.
SeedLeaf == LeafMcpConfig("m1", None, Stdio("run"))
SeedAgent1 == AgentConfig("m1", None, <<"m1", "m2">>)
SeedAgent2 == AgentConfig("m2", None, <<"m1">>)

SeedConfig ==
    [leaf_mcps |-> [id \in {"m1"} |-> SeedLeaf],
     agents |-> [id \in {"m1", "m2"} |-> IF id = "m1" THEN SeedAgent1 ELSE SeedAgent2],
     metadata |-> [version |-> "0.1.0", created_at |-> 0, last_modified |-> 0]]

SeedLog ==
    << [id |-> -2, action |-> "Create", target |-> [kind |-> "LeafMcp", id |-> "m1"],
        details |-> LeafToValue(SeedLeaf)],
       [id |-> -1, action |-> "Create", target |-> [kind |-> "Agent", id |-> "m2"],
        details |-> AgentToValue(SeedAgent2)],
       [id |-> 0, action |-> "Create", target |-> [kind |-> "Agent", id |-> "m1"],
        details |-> AgentToValue(SeedAgent1)] >>

\* serde_json::to_string_pretty(config): the content of the file that holds
\* document c
ConfigToValue(c) ==
    JObj([leaf_mcps |->
              JObj([id \in DOMAIN c.leaf_mcps |-> LeafToValue(c.leaf_mcps[id])]),
          agents |-> JObj([id \in DOMAIN c.agents |-> AgentToValue(c.agents[id])]),
          metadata |-> JObj([version |-> JStr(c.metadata.version),
                             created_at |-> JStr(c.metadata.created_at),
                             last_modified |-> JStr(c.metadata.last_modified)])])

LeafMapOk(v) ==
    v.k = "obj" /\ \A id \in DOMAIN v.o : v.o[id].k = "obj" /\ LeafOk(v.o[id].o)

AgentMapOk(v) ==
    v.k = "obj" /\ \A id \in DOMAIN v.o : v.o[id].k = "obj" /\ AgentOk(v.o[id].o)

ConfigOk(v) ==
    /\ v.k = "obj"
    /\ {"leaf_mcps", "agents", "metadata"} \subseteq DOMAIN v.o
    /\ LeafMapOk(v.o["leaf_mcps"])
    /\ AgentMapOk(v.o["agents"])
    /\ v.o["metadata"].k = "obj"
    /\ \A key \in {"version", "created_at", "last_modified"} :
          HasStr(v.o["metadata"].o, key)

\* serde_json::from_str(&content)
ConfigFromValue(v) ==
    [leaf_mcps |-> [id \in DOMAIN v.o["leaf_mcps"].o |->
                        LeafFromValue(v.o["leaf_mcps"].o[id].o)],
     agents |-> [id \in DOMAIN v.o["agents"].o |->
                     AgentFromValue(v.o["agents"].o[id].o)],
     metadata |-> [version |-> v.o["metadata"].o["version"].s,
                   created_at |-> v.o["metadata"].o["created_at"].s,
                   last_modified |-> v.o["metadata"].o["last_modified"].s]]

\* Variant: the loaded configuration is stamped with the time of the load.
load_config_Restamp(file, t) ==
    IF file = None
    THEN [result |-> "Ok", value |-> Some(DefaultConfig(t))]
    ELSE [result |-> "Ok",
          value |-> Some([ConfigFromValue(ConfigToValue(file[1]))
                            EXCEPT !.metadata.last_modified = t])]

\* FileConfigStorage::load_config: ServerConfig::default() when there is no
\* file, else the content of the file parsed; a content that does not parse
\* is an error.
load_config(file, t) ==
    IF file = None
    THEN [result |-> "Ok", value |-> Some(DefaultConfig(t))]
    ELSE IF ConfigOk(ConfigToValue(file[1]))
         THEN [result |-> "Ok", value |-> Some(ConfigFromValue(ConfigToValue(file[1])))]
         ELSE [result |-> "Json", value |-> None]

\* ConfigService::new, then load_configuration (main.rs), before the server
\* takes requests; the process exits when the load fails.
InitService(fresh) ==
    /\ persisted = (IF fresh THEN None ELSE Some(SeedConfig))
    /\ log = (IF fresh THEN <<>> ELSE SeedLog)
    /\ applied = (IF fresh THEN {} ELSE {-2, -1, 0})
    /\ stored = applied
    /\ lastsave = (IF fresh THEN None ELSE Some(0))
    /\ log_exists = ~fresh
    /\ appended = log
    /\ backups = {}
    /\ load_config(persisted, 0).result = "Ok"
    /\ config = load_config(persisted, 0).value[1]
    /\ writer = 0
    /\ readers = {}
    /\ now = 0
    /\ pc = [p \in Procs |-> "idle"]
    /\ call = [p \in Procs |-> NoCall]
    /\ ncalls = 0
    /\ faults = 0

\* No audit query has been asked for.
NoQuery ==
    [entries |-> <<>>, limit |-> None, action_filter |-> None,
     target_filter |-> None, actor_filter |-> None, result |-> None]

Init == (\E fresh \in BOOLEAN : InitService(fresh)) /\ query = NoQuery

----------------------------------------------------------------------------
(* tokio::sync::RwLock *)

\* Variant: a writer that does not wait for the readers to leave.
CanWrite_IgnoreReaders == writer = 0

\* write().await completes when nobody holds the lock
CanWrite == writer = 0 /\ readers = {}

\* Variant: a reader that does not wait for the writer to leave.
CanRead_IgnoreWriter == writer \in {0} \cup Procs

\* read().await completes when no writer holds the lock
CanRead == writer = 0

\* Variant: the handler persists right after the edit.
AfterEdit_PersistFirst == "slock"

\* The step that follows the in-memory edit, and the one that follows the
\* audit append, in every mutating handler.
AfterEdit == "audit"
AfterAudit == "slock"

\* Variant: the guard is still held when the handler goes on to its audit
\* entry (the drop before the async calls is missing).
WriterAfterEdit_Kept(p, out) == IF out.result = "Ok" THEN p ELSE 0

\* The writer guard at the end of the critical section: dropped by
\* drop(server_config) on success and by the early return on an error.
WriterAfterEdit(p, out) == 0

\* Variant: a mutating handler swallows the audit error as a get does.
AuditErrorResult_Swallowed(stage) == "Ok"

\* Variant: a get propagates the audit error as a mutating handler does.
AuditErrorResult_Propagated(stage) == "Io"

\* What the handler returns when append_entry fails: a mutating handler
\* propagates the error with `?`, a get swallows it.
AuditErrorResult(stage) == IF stage = "audit" THEN "Io" ELSE "Ok"

\* A handler begins.  An admin request without its confirmation flag is
\* answered before the service is called (routes/admin.rs); create_leaf_mcp
\* and create_agent check the id before they ask for the lock.
Entry(req) ==
    IF ~req.confirmed THEN "rejected"
    ELSE IF req.op \in {"create_leaf_mcp", "create_agent"} /\ TrimIsEmpty(req.id)
    THEN "invalid"
    ELSE IF req.op \in MutatingOps THEN "wlock"
    ELSE IF req.op = "get_audit_logs" THEN "load"
    ELSE IF req.op = "backup_configuration" THEN "backup"
    ELSE "rlock"

\* A task receives a request.  The tasks are numbered in the order of their
\* first requests: a task starts once every task of a lower number has.
Call(p) ==
    /\ pc[p] \in {"idle", "done"}
    /\ \A q \in Procs : q < p => call[q].uid # 0
    /\ ncalls < MaxCalls
    /\ \E req \in Requests :
        /\ call' = [call EXCEPT ![p] =
              [req EXCEPT !.uid = ncalls + 1,
                          !.op = IF Entry(req) = "rejected" THEN "none" ELSE @,
                          !.result = CASE Entry(req) = "invalid" -> "InvalidFormat"
                                       [] Entry(req) = "rejected" -> "NotCalled"
                                       [] OTHER -> "pending"]]
        /\ pc' = [pc EXCEPT ![p] = IF Entry(req) \in {"invalid", "rejected"}
                                   THEN "done" ELSE Entry(req)]
    /\ ncalls' = ncalls + 1
    /\ UNCHANGED <<config, writer, readers, log, persisted, now, faults, applied, stored, lastsave,
                   log_exists, appended, backups, query>>

AcquireWrite(p) ==
    /\ pc[p] = "wlock"
    /\ CanWrite
    /\ writer' = p
    /\ pc' = [pc EXCEPT ![p] = "edit"]
    /\ UNCHANGED <<config, readers, log, persisted, now, call, ncalls, faults,
                   applied, stored, lastsave,
                   log_exists, appended, backups, query>>

AcquireRead(p) ==
    /\ pc[p] \in {"rlock", "slock"}
    /\ CanRead
    /\ readers' = readers \cup {p}
    /\ pc' = [pc EXCEPT ![p] = IF pc[p] = "rlock" THEN "read" ELSE "save"]
    /\ UNCHANGED <<config, writer, log, persisted, now, call, ncalls, faults,
                   applied, stored, lastsave,
                   log_exists, appended, backups, query>>

----------------------------------------------------------------------------
(* The in-memory edits, each made while the task holds the writer side.    *)

Return(p, result) ==
    /\ pc' = [pc EXCEPT ![p] = "done"]
    /\ call' = [call EXCEPT ![p].result = result]

\* The end of the critical section: on an error the handler returns and the
\* guard is dropped; otherwise update_last_modified(), drop(server_config),
\* and the handler goes on to its audit entry.
Commit(p, out) ==
    /\ writer' = WriterAfterEdit(p, out)
    /\ IF out.result = "Ok"
       THEN /\ config' = update_last_modified(out.config, now)
            /\ pc' = [pc EXCEPT ![p] = AfterEdit]
            /\ call' = [call EXCEPT ![p].details = out.details, ![p].edited = TRUE]
            /\ applied' = applied \cup {call[p].uid}
       ELSE /\ config' = out.config
            /\ Return(p, out.result)
            /\ UNCHANGED applied
    /\ UNCHANGED <<readers, log, persisted, now, ncalls, faults, stored, lastsave,
                   log_exists, appended, backups, query>>

Editing(p, op) == pc[p] = "edit" /\ call[p].op = op

CreateLeafEdit(p) ==
    /\ Editing(p, "create_leaf_mcp")
    /\ Commit(p, create_leaf_mcp(config, call[p].id, call[p].leaf[1]))

UpdateLeafEdit(p) ==
    /\ Editing(p, "update_leaf_mcp")
    /\ Commit(p, update_leaf_mcp(config, call[p].id, call[p].updates))

\* delete_leaf_mcp removes the entry, then walks the agents; both under the
\* same guard.
DeleteLeafRemove(p) ==
    /\ Editing(p, "delete_leaf_mcp")
    /\ LET out == RemoveLeaf(config, call[p].id) IN
       IF out.result = "Ok"
       THEN /\ config' = out.config
            /\ pc' = [pc EXCEPT ![p] = "cascade"]
            /\ call' = [call EXCEPT ![p].details = out.details]
            /\ UNCHANGED <<writer, readers, log, persisted, now, ncalls, faults,
                           applied, stored, lastsave,
                   log_exists, appended, backups, query>>
       ELSE Commit(p, out)

DeleteLeafCascade(p) ==
    /\ pc[p] = "cascade"
    /\ Commit(p, Edited([config EXCEPT !.agents = CascadeRemove(@, call[p].id)],
                        call[p].details))

CreateAgentEdit(p) ==
    /\ Editing(p, "create_agent")
    /\ Commit(p, create_agent(config, call[p].id, call[p].allowed))

UpdateAgentEdit(p) ==
    /\ Editing(p, "update_agent")
    /\ Commit(p, update_agent(config, call[p].id, call[p].updates))

DeleteAgentEdit(p) ==
    /\ Editing(p, "delete_agent")
    /\ Commit(p, delete_agent(config, call[p].id))

AddAllowedEdit(p) ==
    /\ Editing(p, "add_agent_allowed_mcp")
    /\ Commit(p, add_agent_allowed_mcp(config, call[p].id, call[p].mcp_id))

RemoveAllowedEdit(p) ==
    /\ Editing(p, "remove_agent_allowed_mcp")
    /\ Commit(p, remove_agent_allowed_mcp(config, call[p].id, call[p].mcp_id))

----------------------------------------------------------------------------
(* audit_log and the Audit Store. *)

\* Variant: a delete is logged as an update.
AuditAction_DeleteAsUpdate(op) ==
    CASE op \in {"create_leaf_mcp", "create_agent"} -> "Create"
      [] op \in {"update_leaf_mcp", "update_agent", "delete_leaf_mcp",
                 "delete_agent"} -> "Update"
      [] op = "add_agent_allowed_mcp" -> "AddAllowedMcp"
      [] op = "remove_agent_allowed_mcp" -> "RemoveAllowedMcp"
      [] OTHER -> "Read"

\* Variant: the entry of a get carries the Update tag.
AuditAction_ReadAsUpdate(op) ==
    CASE op \in {"create_leaf_mcp", "create_agent"} -> "Create"
      [] op \in {"delete_leaf_mcp", "delete_agent"} -> "Delete"
      [] op = "add_agent_allowed_mcp" -> "AddAllowedMcp"
      [] op = "remove_agent_allowed_mcp" -> "RemoveAllowedMcp"
      [] OTHER -> "Update"

AuditAction(op) ==
    CASE op \in {"create_leaf_mcp", "create_agent"} -> "Create"
      [] op \in {"update_leaf_mcp", "update_agent"} -> "Update"
      [] op \in {"delete_leaf_mcp", "delete_agent"} -> "Delete"
      [] op = "add_agent_allowed_mcp" -> "AddAllowedMcp"
      [] op = "remove_agent_allowed_mcp" -> "RemoveAllowedMcp"
      [] OTHER -> "Read"

AuditTarget(c) ==
    CASE c.op \in {"create_leaf_mcp", "update_leaf_mcp", "delete_leaf_mcp",
                   "get_leaf_mcp"} -> [kind |-> "LeafMcp", id |-> c.id]
      [] c.op \in {"add_agent_allowed_mcp", "remove_agent_allowed_mcp"} ->
            [kind |-> "AgentAllowedMcp", agent_id |-> c.id, mcp_id |-> c.mcp_id]
      [] OTHER -> [kind |-> "Agent", id |-> c.id]

\* The AuditLogEntry audit_log builds for a call: id is the fresh Uuid.  The
\* actor and the reason are passed through from the request, the timestamp
\* is the clock's; no handler reads them back and they are left out here.
AuditLogEntry(c) ==
    [id |-> c.uid, action |-> AuditAction(c.op), target |-> AuditTarget(c),
     details |-> c.details]

\* The file is opened with create and append: the line goes to its end.
append_entry(file, entry) == Append(file, entry)

\* append_entry succeeds: one line is added to the end of the file.  A
\* mutating handler goes on to save_configuration, a get returns its value.
AuditAppend(p) ==
    /\ pc[p] \in {"audit", "raudit"}
    /\ log' = append_entry(log, AuditLogEntry(call[p]))
    /\ pc' = [pc EXCEPT ![p] = IF pc[p] = "audit" THEN AfterAudit ELSE "done"]
    /\ call' = [call EXCEPT ![p].audited = @ + 1,
                            ![p].result = IF pc[p] = "audit" THEN @ ELSE "Ok"]
    /\ log_exists' = TRUE
    /\ appended' = Append(appended, AuditLogEntry(call[p]))
    /\ UNCHANGED <<config, writer, readers, persisted, now, ncalls, faults,
                   applied, stored, lastsave, backups, query>>

\* append_entry fails: a mutating handler returns the error (`?`), a get
\* logs it and returns its value.
AuditFail(p) ==
    /\ pc[p] \in {"audit", "raudit"}
    /\ faults < MaxFaults
    /\ faults' = faults + 1
    /\ Return(p, AuditErrorResult(pc[p]))
    /\ UNCHANGED <<config, writer, readers, log, persisted, now, ncalls,
                   applied, stored, lastsave,
                   log_exists, appended, backups, query>>

----------------------------------------------------------------------------
(* save_configuration and the Config Store: the task holds the reader side *)
(* while save_config serializes and writes the whole configuration.        *)

\* Variant: the handler reports success although save_config failed.
SaveErrorResult_Swallowed == "Ok"

\* save_configuration propagates the error of save_config with `?`.
SaveErrorResult == "Io"

\* Variant: the guard is dropped as soon as the serializer has started.
ReadersWhileSaving_Dropped(p) == readers \ {p}

\* The reader guard of save_configuration lives until the method returns.
ReadersWhileSaving(p) == readers

\* The document the serializer writes: the fields of ServerConfig in their
\* order, leaf_mcps as it was read first, then agents and metadata.
Document(leaf_mcps, c) ==
    [leaf_mcps |-> leaf_mcps, agents |-> c.agents, metadata |-> c.metadata]

\* to_string_pretty walks the configuration field by field through the
\* guard; other threads run meanwhile, so the walk is cut after the first
\* field.
\* Variant: fs::write replaced by a create-new that keeps an existing file.
WriteFile_KeepExisting(file, document) ==
    IF file = None THEN Some(document) ELSE file

\* fs::write: the file holds the document just written, whatever it held.
WriteFile(file, document) == Some(document)

SaveSerialize(p) ==
    /\ pc[p] = "save" /\ call[p].content = None
    /\ call' = [call EXCEPT ![p].content = Some(config.leaf_mcps)]
    /\ readers' = ReadersWhileSaving(p)
    /\ UNCHANGED <<config, writer, log, persisted, now, pc, ncalls, faults,
                   applied, stored, lastsave,
                   log_exists, appended, backups, query>>

\* The rest of the walk, then fs::write replaces the file with the document.
SaveWrite(p) ==
    /\ pc[p] = "save" /\ call[p].content # None
    /\ persisted' = WriteFile(persisted, Document(call[p].content[1], config))
    /\ stored' = applied
    /\ lastsave' = Some(call[p].uid)
    /\ readers' = readers \ {p}
    /\ pc' = [pc EXCEPT ![p] = "done"]
    /\ call' = [call EXCEPT ![p].result = "Ok", ![p].saved = TRUE,
                            ![p].content = None]
    /\ UNCHANGED <<config, writer, log, now, ncalls, faults, applied,
                   log_exists, appended, backups, query>>

\* save_config fails before it has touched the file (create_dir_all or the
\* open of the file returns an error).
SaveFail(p) ==
    /\ pc[p] = "save" /\ call[p].content # None
    /\ faults < MaxFaults
    /\ faults' = faults + 1
    /\ readers' = readers \ {p}
    /\ pc' = [pc EXCEPT ![p] = "done"]
    /\ call' = [call EXCEPT ![p].result = SaveErrorResult, ![p].content = None]
    /\ UNCHANGED <<config, writer, log, persisted, now, ncalls, applied, stored, lastsave,
                   log_exists, appended, backups, query>>

----------------------------------------------------------------------------
(* The read handlers, each under the reader side of the lock.              *)

Reading(p, op) == pc[p] = "read" /\ call[p].op = op

\* get_leaf_mcp / get_agent: look the id up, clone, drop the guard, then the
\* Read audit entry.
Lookup(p, map) ==
    /\ readers' = readers \ {p}
    /\ IF call[p].id \in DOMAIN map
       THEN /\ pc' = [pc EXCEPT ![p] = "raudit"]
            /\ call' = [call EXCEPT ![p].value = Some(map[call[p].id])]
       ELSE Return(p, "NotFound")
    /\ UNCHANGED <<config, writer, log, persisted, now, ncalls, faults, applied, stored, lastsave,
                   log_exists, appended, backups, query>>

GetLeafRead(p) == Reading(p, "get_leaf_mcp") /\ Lookup(p, config.leaf_mcps)

GetAgentRead(p) == Reading(p, "get_agent") /\ Lookup(p, config.agents)

\* The handlers that return what they read without an audit entry.
Answer(p, result, value) ==
    /\ readers' = readers \ {p}
    /\ pc' = [pc EXCEPT ![p] = "done"]
    /\ call' = [call EXCEPT ![p].result = result, ![p].value = value]
    /\ UNCHANGED <<config, writer, log, persisted, now, ncalls, faults, applied, stored, lastsave,
                   log_exists, appended, backups, query>>

\* The Vec of (id, config) pairs, in the HashMap's order: a set of pairs.
Pairs(map) == {<<id, map[id]>> : id \in DOMAIN map}

ListLeafRead(p) ==
    Reading(p, "list_leaf_mcps") /\ Answer(p, "Ok", Some(Pairs(config.leaf_mcps)))

ListAgentsRead(p) ==
    Reading(p, "list_agents") /\ Answer(p, "Ok", Some(Pairs(config.agents)))

GetConfigurationRead(p) ==
    Reading(p, "get_configuration") /\ Answer(p, "Ok", Some(config))

RemoteConfigRead(p) ==
    /\ Reading(p, "get_agent_remote_config")
    /\ LET out == get_agent_remote_config(config, call[p].id) IN
       Answer(p, out.result, out.value)

----------------------------------------------------------------------------
(* The admin routes (routes/admin.rs): what a handler answers for the      *)
(* result the service returned.                                            *)

AdminReadOps == {"get_leaf_mcp", "get_agent"}

AdminOps == MutatingOps \cup AdminReadOps

\* The status an admin handler answers: BAD_REQUEST without the flag, else
\* the match on the service's result, Err(_) of a read handler being
\* NOT_FOUND and Err(_) of every other handler INTERNAL_SERVER_ERROR.
respond(op, confirmed, result) ==
    IF ~confirmed THEN "BAD_REQUEST"
    ELSE IF result = "Ok" THEN "OK"
    ELSE IF op \in AdminReadOps THEN "NOT_FOUND"
    ELSE "INTERNAL_SERVER_ERROR"

----------------------------------------------------------------------------
(* The audit store read back (file_audit_log.rs) and the backup            *)
(* (file_config.rs).  Neither handler takes the lock.                      *)

\* #[serde(rename_all = "snake_case")] on the names of AuditAction and
\* AuditTarget
SnakeCase(name) ==
    CASE name = "Create" -> "create"
      [] name = "Read" -> "read"
      [] name = "Update" -> "update"
      [] name = "Delete" -> "delete"
      [] name = "AddAllowedMcp" -> "add_allowed_mcp"
      [] name = "RemoveAllowedMcp" -> "remove_allowed_mcp"
      [] name = "LeafMcp" -> "leaf_mcp"
      [] name = "Agent" -> "agent"
      [] name = "AgentAllowedMcp" -> "agent_allowed_mcp"
      [] OTHER -> "server"

ActionNames ==
    {"Create", "Read", "Update", "Delete", "AddAllowedMcp", "RemoveAllowedMcp"}

TargetNames == {"LeafMcp", "Agent", "AgentAllowedMcp", "Server"}

\* #[serde(tag = "type")]: the variant's name under "type", its fields beside
TargetToValue(t) ==
    CASE t.kind \in {"LeafMcp", "Agent"} ->
            JObj([type |-> JStr(SnakeCase(t.kind)), id |-> JStr(t.id)])
      [] t.kind = "AgentAllowedMcp" ->
            JObj([type |-> JStr(SnakeCase(t.kind)), agent_id |-> JStr(t.agent_id),
                  mcp_id |-> JStr(t.mcp_id)])
      [] OTHER -> JObj([type |-> JStr(SnakeCase(t.kind))])

\* serde_json::to_string(entry): the line append_entry writes
EntryToValue(e) ==
    JObj([id |-> JStr(e.id),
          action |-> JObj([type |-> JStr(SnakeCase(e.action))]),
          target |-> TargetToValue(e.target),
          details |-> e.details])

TaggedOk(v, names) ==
    /\ v.k = "obj" /\ HasStr(v.o, "type")
    /\ \E n \in names : SnakeCase(n) = v.o["type"].s

Tag(v, names) == CHOOSE n \in names : SnakeCase(n) = v.o["type"].s

TargetOk(v) ==
    /\ TaggedOk(v, TargetNames)
    /\ Tag(v, TargetNames) \in {"LeafMcp", "Agent"} => HasStr(v.o, "id")
    /\ Tag(v, TargetNames) = "AgentAllowedMcp" =>
            HasStr(v.o, "agent_id") /\ HasStr(v.o, "mcp_id")

TargetFromValue(v) ==
    LET kind == Tag(v, TargetNames) IN
    CASE kind \in {"LeafMcp", "Agent"} -> [kind |-> kind, id |-> v.o["id"].s]
      [] kind = "AgentAllowedMcp" ->
            [kind |-> kind, agent_id |-> v.o["agent_id"].s, mcp_id |-> v.o["mcp_id"].s]
      [] OTHER -> [kind |-> kind]

EntryOk(v) ==
    /\ v.k = "obj"
    /\ HasStr(v.o, "id")
    /\ "action" \in DOMAIN v.o /\ TaggedOk(v.o["action"], ActionNames)
    /\ "target" \in DOMAIN v.o /\ TargetOk(v.o["target"])
    /\ "details" \in DOMAIN v.o

\* serde_json::from_str(line)
EntryFromValue(v) ==
    [id |-> v.o["id"].s, action |-> Tag(v.o["action"], ActionNames),
     target |-> TargetFromValue(v.o["target"]), details |-> v.o["details"]]

\* The lines of the file: one serialized entry per entry appended.
Lines(file) == [i \in DOMAIN file |-> EntryToValue(file[i])]

\* Variant: the entries are pushed to the front of the Vec.
load_entries_Reversed(file) ==
    [result |-> "Ok",
     value |-> Some([i \in DOMAIN file |->
                        EntryFromValue(Lines(file)[Len(file) + 1 - i])])]

\* load_entries on a file that exists: every line is parsed, in order; a
\* line that does not parse aborts the load.
load_entries(file) ==
    IF \A i \in DOMAIN file : EntryOk(Lines(file)[i])
    THEN [result |-> "Ok",
          value |-> Some([i \in DOMAIN file |-> EntryFromValue(Lines(file)[i])])]
    ELSE [result |-> "Json", value |-> None]

\* load_entries up to its first await: the file is read when it exists,
\* else the handler goes into initialize().
LoadEntries(p) ==
    /\ pc[p] = "load"
    /\ IF log_exists
       THEN LET out == load_entries(log) IN Answer(p, out.result, out.value)
       ELSE /\ pc' = [pc EXCEPT ![p] = "init"]
            /\ UNCHANGED <<config, writer, readers, log, persisted, now, call,
                           ncalls, faults, applied, stored, lastsave,
                           log_exists, appended, backups, query>>

\* initialize() looks for the file again, then awaits create_dir_all.
InitializeCheck(p) ==
    /\ pc[p] = "init"
    /\ IF log_exists
       THEN Answer(p, "Ok", Some(<<>>))
       ELSE /\ pc' = [pc EXCEPT ![p] = "initw"]
            /\ UNCHANGED <<config, writer, readers, log, persisted, now, call,
                           ncalls, faults, applied, stored, lastsave,
                           log_exists, appended, backups, query>>

\* fs::write(path, ""): the file is created, or emptied when another task
\* has created it in the meantime; load_entries returns an empty Vec.
InitializeWrite(p) ==
    /\ pc[p] = "initw"
    /\ log' = <<>>
    /\ log_exists' = TRUE
    /\ pc' = [pc EXCEPT ![p] = "done"]
    /\ call' = [call EXCEPT ![p].result = "Ok", ![p].value = Some(<<>>)]
    /\ UNCHANGED <<config, writer, readers, persisted, now, ncalls, faults,
                   applied, stored, lastsave, appended, backups, query>>

\* Variant: the backup is written from the configuration in memory.
BackupSource_Memory(file, c) == c

\* fs::copy(config_path, backup_path): the content of the file
BackupSource(file, c) == file[1]

\* backup_path(): "<config_path>.backup.<YYYYMMDD_HHMMSS>" of the clock
backup_path(t) == t

\* backup_config: NotFound without a file, else the file is copied to the
\* backup path, replacing what was there, and the path is returned.
Backup(p) ==
    /\ pc[p] = "backup"
    /\ IF persisted = None
       THEN /\ backups' = backups
            /\ call' = [call EXCEPT ![p].result = "Storage(NotFound)"]
       ELSE /\ backups' = {b \in backups : b.path # backup_path(now)} \cup
                           {[path |-> backup_path(now),
                             content |-> BackupSource(persisted, config)]}
            /\ call' = [call EXCEPT ![p].result = "Ok",
                                    ![p].value = Some(backup_path(now))]
    /\ pc' = [pc EXCEPT ![p] = "done"]
    /\ UNCHANGED <<config, writer, readers, log, persisted, now, ncalls, faults,
                   applied, stored, lastsave, log_exists, appended, query>>

----------------------------------------------------------------------------
\* Time passes.  The clock is read by update_last_modified() at the end of
\* an edit and by backup_config for the name of the copy; a tick is taken
\* when a task is at one of these steps, a tick at any other moment being
\* the same as one taken when the next such step is reached.
Tick ==
    /\ now < MaxClock
    /\ \E p \in Procs : pc[p] \in {"edit", "cascade", "backup"}
    /\ now' = now + 1
    /\ UNCHANGED <<config, writer, readers, log, persisted, pc, call, ncalls,
                   faults, applied, stored, lastsave,
                   log_exists, appended, backups, query>>

Next ==
    \/ \E p \in Procs : Call(p)
    \/ \E p \in Procs : AcquireWrite(p)
    \/ \E p \in Procs : AcquireRead(p)
    \/ \E p \in Procs : CreateLeafEdit(p)
    \/ \E p \in Procs : UpdateLeafEdit(p)
    \/ \E p \in Procs : DeleteLeafRemove(p)
    \/ \E p \in Procs : DeleteLeafCascade(p)
    \/ \E p \in Procs : CreateAgentEdit(p)
    \/ \E p \in Procs : UpdateAgentEdit(p)
    \/ \E p \in Procs : DeleteAgentEdit(p)
    \/ \E p \in Procs : AddAllowedEdit(p)
    \/ \E p \in Procs : RemoveAllowedEdit(p)
    \/ \E p \in Procs : AuditAppend(p)
    \/ \E p \in Procs : AuditFail(p)
    \/ \E p \in Procs : SaveSerialize(p)
    \/ \E p \in Procs : SaveWrite(p)
    \/ \E p \in Procs : SaveFail(p)
    \/ \E p \in Procs : GetLeafRead(p)
    \/ \E p \in Procs : GetAgentRead(p)
    \/ \E p \in Procs : ListLeafRead(p)
    \/ \E p \in Procs : ListAgentsRead(p)
    \/ \E p \in Procs : GetConfigurationRead(p)
    \/ \E p \in Procs : RemoteConfigRead(p)
    \/ \E p \in Procs : LoadEntries(p)
    \/ \E p \in Procs : InitializeCheck(p)
    \/ \E p \in Procs : InitializeWrite(p)
    \/ \E p \in Procs : Backup(p)
    \/ Tick

Spec == Init /\ [][Next]_vars

----------------------------------------------------------------------------
(* The audit query of the command line (cli/commands.rs,                   *)
(* filter_audit_entries): a pure function of the loaded entries, the three *)
(* filters and the limit.  Strings are sequences of characters.            *)

MaxEntries == 3
MaxTime == 2
MaxLimit == 2

UpperLetters ==
    <<"A", "B", "C", "D", "E", "F", "G", "H", "I", "J", "K", "L", "M",
      "N", "O", "P", "Q", "R", "S", "T", "U", "V", "W", "X", "Y", "Z">>

LowerLetters ==
    <<"a", "b", "c", "d", "e", "f", "g", "h", "i", "j", "k", "l", "m",
      "n", "o", "p", "q", "r", "s", "t", "u", "v", "w", "x", "y", "z">>

\* str::to_lowercase
to_lowercase(str) ==
    [i \in DOMAIN str |->
        IF \E k \in DOMAIN UpperLetters : UpperLetters[k] = str[i]
        THEN LowerLetters[CHOOSE k \in DOMAIN UpperLetters : UpperLetters[k] = str[i]]
        ELSE str[i]]

\* str::contains
str_contains(str, pattern) ==
    \E i \in 0..(Len(str) - Len(pattern)) :
        SubSeq(str, i + 1, i + Len(pattern)) = pattern

\* format!("{:?}", entry.action): the name of the variant
DebugAction(action) ==
    CASE action = "Create" -> <<"C", "r", "e", "a", "t", "e">>
      [] action = "Read" -> <<"R", "e", "a", "d">>
      [] action = "Update" -> <<"U", "p", "d", "a", "t", "e">>
      [] action = "Delete" -> <<"D", "e", "l", "e", "t", "e">>
      [] action = "AddAllowedMcp" ->
            <<"A", "d", "d", "A", "l", "l", "o", "w", "e", "d", "M", "c", "p">>
      [] OTHER ->
            <<"R", "e", "m", "o", "v", "e", "A", "l", "l", "o", "w", "e", "d",
              "M", "c", "p">>

\* The name the target filter is matched against.
target_str(kind) ==
    CASE kind = "LeafMcp" -> <<"l", "e", "a", "f", "m", "c", "p">>
      [] kind = "Agent" -> <<"a", "g", "e", "n", "t">>
      [] kind = "AgentAllowedMcp" ->
            <<"a", "g", "e", "n", "t", "a", "l", "l", "o", "w", "e", "d", "m", "c", "p">>
      [] OTHER -> <<"s", "e", "r", "v", "e", "r">>

\* Variant: an entry without an actor passes the actor filter.
Matches_ActorlessPass(entry, action_filter, target_filter, actor_filter) ==
    /\ action_filter # None =>
          str_contains(to_lowercase(DebugAction(entry.action)),
                       to_lowercase(action_filter[1]))
    /\ target_filter # None =>
          str_contains(target_str(entry.target.kind), to_lowercase(target_filter[1]))
    /\ (actor_filter # None /\ entry.actor # None) =>
          str_contains(to_lowercase(entry.actor[1]), to_lowercase(actor_filter[1]))

\* The closure given to filter(): false at the first filter that is
\* supplied and does not match.
Matches(entry, action_filter, target_filter, actor_filter) ==
    /\ action_filter # None =>
          str_contains(to_lowercase(DebugAction(entry.action)),
                       to_lowercase(action_filter[1]))
    /\ target_filter # None =>
          str_contains(target_str(entry.target.kind), to_lowercase(target_filter[1]))
    /\ actor_filter # None =>
          /\ entry.actor # None
          /\ str_contains(to_lowercase(entry.actor[1]), to_lowercase(actor_filter[1]))

\* Variant: an entry goes in front of the entries of its own timestamp.
InsertSorted_BeforeEqual(sorted, entry) ==
    LET k == Cardinality({i \in DOMAIN sorted :
                            sorted[i].timestamp > entry.timestamp}) IN
    SubSeq(sorted, 1, k) \o <<entry>> \o SubSeq(sorted, k + 1, Len(sorted))

\* One entry put into a list that is in descending order of timestamp, behind
\* the entries that compare greater or equal.
InsertSorted(sorted, entry) ==
    LET k == Cardinality({i \in DOMAIN sorted :
                            sorted[i].timestamp >= entry.timestamp}) IN
    SubSeq(sorted, 1, k) \o <<entry>> \o SubSeq(sorted, k + 1, Len(sorted))

\* sort_by(|a, b| b.timestamp.cmp(&a.timestamp)): a stable sort, the entries
\* taken in their order.
RECURSIVE sort_by(_)
sort_by(list) ==
    IF list = <<>> THEN <<>>
    ELSE InsertSorted(sort_by(SubSeq(list, 1, Len(list) - 1)), list[Len(list)])

\* Vec::truncate
truncate(list, len) == IF len < Len(list) THEN SubSeq(list, 1, len) ELSE list

\* Variant: the limit is applied to the entries before they are sorted.
filter_audit_entries_TruncateFirst(entries, limit, action_filter, target_filter, actor_filter) ==
    LET filtered ==
            SelectSeq(entries,
                      LAMBDA e : Matches(e, action_filter, target_filter, actor_filter))
    IN sort_by(IF limit = None THEN filtered ELSE truncate(filtered, limit[1]))

filter_audit_entries(entries, limit, action_filter, target_filter, actor_filter) ==
    LET filtered ==
            SelectSeq(entries,
                      LAMBDA e : Matches(e, action_filter, target_filter, actor_filter))
        sorted == sort_by(filtered)
    IN IF limit = None THEN sorted ELSE truncate(sorted, limit[1])

\* An entry as the query sees it; id is its place in the log.
QueryEntry(id, timestamp, action, kind, actor) ==
    [id |-> id, timestamp |-> timestamp, action |-> action,
     target |-> [kind |-> kind], actor |-> actor]

Admin == <<"A", "d", "m", "i", "n">>

EntryPool ==
    [timestamp : 1..MaxTime, action : {"Create", "Update"},
     kind : {"LeafMcp", "Agent"}, actor : {None, Some(Admin)}]

\* Create, Create, Update, Delete, Read at the times 1 < 2 < 3 < 4 < 5
ExampleEntries ==
    << QueryEntry(1, 1, "Create", "LeafMcp", None),
       QueryEntry(2, 2, "Create", "LeafMcp", None),
       QueryEntry(3, 3, "Update", "LeafMcp", None),
       QueryEntry(4, 4, "Delete", "LeafMcp", None),
       QueryEntry(5, 5, "Read", "LeafMcp", None) >>

EntryLists ==
    {[i \in DOMAIN f |->
        QueryEntry(i, f[i].timestamp, f[i].action, f[i].kind, f[i].actor)] :
        f \in UNION {[1..n -> EntryPool] : n \in 0..MaxEntries}}
    \cup {ExampleEntries}

ActionFilters == {None, Some(<<"c", "r", "e", "a", "t", "e">>), Some(<<"A", "T", "E">>)}
TargetFilters == {None, Some(<<"A", "g", "e", "n", "t">>)}
ActorFilters == {None, Some(<<"a", "d", "m">>), Some(<<>>)}
Limits == {None} \cup {Some(n) : n \in 0..MaxLimit}

Queries ==
    [entries : EntryLists, limit : Limits, action_filter : ActionFilters,
     target_filter : TargetFilters, actor_filter : ActorFilters, result : {None}]

\* Commands::ShowAudit with the entries loaded and the arguments parsed.
InitQuery == InitService(FALSE) /\ query \in Queries

FilterAuditEntries ==
    /\ query.result = None
    /\ query' = [query EXCEPT !.result =
            Some(filter_audit_entries(query.entries, query.limit, query.action_filter,
                                      query.target_filter, query.actor_filter))]
    /\ UNCHANGED <<config, writer, readers, log, persisted, now, pc, call, ncalls,
                   faults, applied, stored, lastsave, log_exists, appended, backups>>

NextQuery == FilterAuditEntries

SpecQuery == InitQuery /\ [][NextQuery]_vars

----------------------------------------------------------------------------
(* The audit log of a new installation: the service with no file yet,      *)
(* taking agent creations and reads of the audit log, one call more than   *)
(* in Spec.                                                                *)

MaxAuditCalls == 3

AuditRequests ==
    {Request("create_agent", id, "", None, <<>>, JNull) : id \in Ids}
    \cup {Request("get_audit_logs", "", "", None, <<>>, JNull)}

InitAudit == InitService(TRUE) /\ query = NoQuery

\* A handler begins, as in Call.
CallAudit(p) ==
    /\ pc[p] \in {"idle", "done"}
    /\ ncalls < MaxAuditCalls
    /\ \E req \in AuditRequests :
        /\ call' = [call EXCEPT ![p] =
              [req EXCEPT !.uid = ncalls + 1, !.result = "pending"]]
        /\ pc' = [pc EXCEPT ![p] = Entry(req)]
    /\ ncalls' = ncalls + 1
    /\ UNCHANGED <<config, writer, readers, log, persisted, now, faults, applied,
                   stored, lastsave, log_exists, appended, backups, query>>

NextAudit ==
    \/ \E p \in Procs : CallAudit(p)
    \/ \E p \in Procs : AcquireWrite(p)
    \/ \E p \in Procs : CreateAgentEdit(p)
    \/ \E p \in Procs : AuditAppend(p)
    \/ \E p \in Procs : AcquireRead(p)
    \/ \E p \in Procs : SaveSerialize(p)
    \/ \E p \in Procs : SaveWrite(p)
    \/ \E p \in Procs : LoadEntries(p)
    \/ \E p \in Procs : InitializeCheck(p)
    \/ \E p \in Procs : InitializeWrite(p)

SpecAudit == InitAudit /\ [][NextAudit]_vars

----------------------------------------------------------------------------
(* Progress.  The service under a fair scheduler: a task that can take its *)
(* next step takes it (the tokio runtime polls every ready task, the lock  *)
(* wakes its waiters, a storage call returns with Ok or an error).  One    *)
(* request of every operation, on either initial state.                    *)

LiveRequests ==
    {Request("create_leaf_mcp", "m2", "", Some(LeafMcpConfig("m2", None, Stdio("run"))),
             <<>>, JNull),
     Request("update_leaf_mcp", "m1", "", None, <<>>, JObj([description |-> JStr("x")])),
     Request("delete_leaf_mcp", "m1", "", None, <<>>, JNull),
     Request("create_agent", "m1", "", None, <<>>, JNull),
     Request("update_agent", "m1", "", None, <<>>, JNull),
     Request("delete_agent", "m1", "", None, <<>>, JNull),
     Request("add_agent_allowed_mcp", "m2", "m2", None, <<>>, JNull),
     Request("remove_agent_allowed_mcp", "m1", "m1", None, <<>>, JNull)}
    \cup {Request(op, "m1", "", None, <<>>, JNull) :
            op \in {"get_leaf_mcp", "get_agent", "get_agent_remote_config"}}
    \cup {Request(op, "", "", None, <<>>, JNull) :
            op \in {"list_leaf_mcps", "list_agents", "get_configuration"} \cup StoreOps}

\* A handler begins, as in Call.
CallLive(p) ==
    /\ pc[p] \in {"idle", "done"}
    /\ ncalls < MaxCalls
    /\ \E req \in LiveRequests :
        /\ call' = [call EXCEPT ![p] =
              [req EXCEPT !.uid = ncalls + 1, !.result = "pending"]]
        /\ pc' = [pc EXCEPT ![p] = Entry(req)]
    /\ ncalls' = ncalls + 1
    /\ UNCHANGED <<config, writer, readers, log, persisted, now, faults, applied,
                   stored, lastsave, log_exists, appended, backups, query>>

\* The next step of task p inside its handler.
Proceed(p) ==
    \/ AcquireWrite(p)
    \/ AcquireRead(p)
    \/ CreateLeafEdit(p)
    \/ UpdateLeafEdit(p)
    \/ DeleteLeafRemove(p)
    \/ DeleteLeafCascade(p)
    \/ CreateAgentEdit(p)
    \/ UpdateAgentEdit(p)
    \/ DeleteAgentEdit(p)
    \/ AddAllowedEdit(p)
    \/ RemoveAllowedEdit(p)
    \/ AuditAppend(p)
    \/ AuditFail(p)
    \/ SaveSerialize(p)
    \/ SaveWrite(p)
    \/ SaveFail(p)
    \/ GetLeafRead(p)
    \/ GetAgentRead(p)
    \/ ListLeafRead(p)
    \/ ListAgentsRead(p)
    \/ GetConfigurationRead(p)
    \/ RemoteConfigRead(p)
    \/ LoadEntries(p)
    \/ InitializeCheck(p)
    \/ InitializeWrite(p)
    \/ Backup(p)

NextLive ==
    \/ \E p \in Procs : CallLive(p)
    \/ \E p \in Procs : Proceed(p)

Fairness == \A p \in Procs : WF_vars(Proceed(p))

SpecLive == Init /\ [][NextLive]_vars /\ Fairness

----------------------------------------------------------------------------
(* Properties. *)

Mutating(p) == call[p].op \in MutatingOps

ValidationErrors == {"InvalidFormat", "AlreadyExists", "NotFound"}

HasEntry(l, uid) == \E i \in DOMAIN l : l[i].id = uid

Entries(l, uid) == {i \in DOMAIN l : l[i].id = uid}

\* The tasks holding each side of the lock, by their place in the handler.
WriteHolders == {p \in Procs : pc[p] \in {"edit", "cascade"}}
ReadHolders == {p \in Procs : pc[p] \in {"read", "save"}}

\* Task p leaves its audit step without an entry appended: append_entry failed.
AuditFailed(p) == pc[p] = "audit" /\ pc'[p] # "audit" /\ log' = log

\* Task p leaves its persist step without the document written.
SaveFailed(p) == pc[p] = "save" /\ pc'[p] = "done" /\ ~call'[p].saved

\* Task p has just returned from a call.
Returned(p) == pc'[p] = "done" /\ (pc[p] # "done" \/ call'[p].uid # call[p].uid)

\* C1: in every mutating call the steps happen in the order edit, audit
\* append, persist: a call that is persisting or has persisted has appended
\* its audit entry, and a call that is appending or has appended its entry
\* has applied its edit (with last_modified set) under the writer lock.
C1_StepOrder ==
    \A p \in Procs : Mutating(p) =>
        /\ (pc[p] \in {"slock", "save"} \/ call[p].saved) =>
               call[p].audited = 1 /\ HasEntry(appended, call[p].uid)
        /\ (pc[p] = "audit" \/ call[p].audited > 0) =>
               call[p].edited /\ call[p].uid \in applied
        /\ pc[p] \in {"wlock", "edit", "cascade"} =>
               ~call[p].edited /\ call[p].audited = 0 /\ ~call[p].saved

C1_Witness ==
    \E p \in Procs :
        /\ call[p].op = "delete_leaf_mcp"
        /\ call[p].edited /\ call[p].audited = 1 /\ call[p].saved
        /\ call[p].result = "Ok"

\* C2 as claimed: when the audit append of a mutating call fails the call
\* returns an error without persisting, its edit stays in memory, the log
\* has no entry for it, and at its return the persisted document does not
\* hold its edit.
C2_AuditFailureLeavesDocumentWithoutEdit ==
    [][\A p \in Procs : (Mutating(p) /\ AuditFailed(p)) =>
          /\ pc'[p] = "done" /\ call'[p].result = "Io" /\ ~call'[p].saved
          /\ config' = config /\ call[p].uid \in applied'
          /\ ~HasEntry(appended', call[p].uid)
          /\ call[p].uid \notin stored']_vars

\* C2 amended: when the audit append of a mutating call fails the call
\* returns an error without persisting and without rolling its edit back,
\* and the log has no entry for it; the call itself leaves the persisted
\* document as it is, so the document holds the edit at the return only if
\* another task's persist step ran after the edit.
C2_AuditFailureNoPersistNoRollback ==
    [][\A p \in Procs : (Mutating(p) /\ AuditFailed(p)) =>
          /\ pc'[p] = "done" /\ call'[p].result = "Io" /\ ~call'[p].saved
          /\ config' = config /\ call[p].uid \in applied'
          /\ ~HasEntry(appended', call[p].uid)
          /\ persisted' = persisted /\ stored' = stored
          /\ (\A q \in Procs \ {p} : pc[q] = "idle") => call[p].uid \notin stored']_vars

C2_Witness ==
    \E p \in Procs :
        /\ Mutating(p) /\ pc[p] = "done" /\ call[p].result = "Io"
        /\ call[p].edited /\ call[p].audited = 0 /\ ~call[p].saved
        /\ call[p].uid \in applied
        /\ ~HasEntry(appended, call[p].uid)

\* C3: when the persist step of a mutating call fails the call returns an
\* error although its edit is applied in memory and its audit entry is in
\* the log; the failing step undoes neither.
C3_PersistFailureAfterEditAndAudit ==
    [][\A p \in Procs : (Mutating(p) /\ SaveFailed(p)) =>
          /\ call'[p].result \notin {"Ok", "pending"}
          /\ call[p].edited /\ call[p].uid \in applied'
          /\ call[p].audited = 1 /\ HasEntry(appended', call[p].uid)
          /\ config' = config /\ log' = log /\ persisted' = persisted]_vars

C3_Witness ==
    \E p \in Procs :
        /\ Mutating(p) /\ pc[p] = "done" /\ call[p].result = "Io"
        /\ call[p].edited /\ call[p].audited = 1 /\ ~call[p].saved
        /\ HasEntry(appended, call[p].uid)
        /\ persisted # Some(config)

\* C4: a mutating call that returns InvalidFormat, AlreadyExists or NotFound
\* leaves the in-memory configuration (leaf map, agent map, last_modified)
\* as it was, appends no audit entry and persists nothing.
C4_ValidationFailureChangesNothing ==
    [][\A p \in Procs :
          (Returned(p) /\ call'[p].op \in MutatingOps
                       /\ call'[p].result \in ValidationErrors) =>
          /\ config' = config /\ log' = log /\ persisted' = persisted
          /\ ~call'[p].edited /\ call'[p].audited = 0 /\ ~call'[p].saved
          /\ call'[p].uid \notin applied']_vars

C4_Witness ==
    \E p \in Procs :
        /\ pc[p] = "done" /\ call[p].op = "create_agent"
        /\ ~TrimIsEmpty(call[p].id)
        /\ call[p].result = "InvalidFormat"

\* C5: the writer side of the lock is exclusive: never two writers, never a
\* writer together with a reader; readers may share the reader side.
C5_WriterExcludesAll ==
    /\ Cardinality(WriteHolders) <= 1
    /\ WriteHolders # {} => ReadHolders = {}
    /\ writer # 0 => readers = {}
    /\ WriteHolders = IF writer = 0 THEN {} ELSE {writer}
    /\ ReadHolders = readers

C5_Witness == Cardinality(ReadHolders) = 2 /\ readers = ReadHolders

\* C6: no task holds the writer side while it appends its audit entry or
\* persists; the guard is gone when the edit ends, on success and on error.
C6_WriterReleasedAfterEdit ==
    \A p \in Procs : pc[p] \notin {"edit", "cascade"} => writer # p

C6_Witness ==
    \E p \in Procs, q \in Procs :
        /\ p # q
        /\ pc[p] = "audit" /\ Mutating(p)
        /\ writer = q /\ pc[q] = "edit"

\* The ids of a list, and the list without id, its other ids in their order.
IdsOf(list) == {list[i] : i \in DOMAIN list}

RECURSIVE Without(_, _)
Without(list, id) ==
    IF list = <<>> THEN <<>>
    ELSE IF Head(list) = id THEN Without(Tail(list), id)
    ELSE <<Head(list)>> \o Without(Tail(list), id)

\* C7 as claimed: whenever no edit is under way, every id in every agent's
\* allowed_mcp_ids names an existing leaf entry or an existing agent.
C7_AllowedIdsExist ==
    writer = 0 =>
        \A a \in DOMAIN config.agents :
            \A id \in IdsOf(config.agents[a].allowed_mcp_ids) : McpExists(config, id)

\* Task p applies the edit of delete_leaf_mcp: the cascade ends the critical
\* section.
DeleteApplied(p) == pc[p] = "cascade" /\ pc'[p] # "cascade"

\* C8: delete_leaf_mcp(id) removes the leaf entry and id from every agent's
\* allow-list in one critical section: when the edit is applied the leaf is
\* gone, no allow-list holds id, the other ids of each list keep their
\* order, and while the entry is removed but the lists are not yet walked
\* no task holds the reader side, so no read handler sees that state.
C8_DeleteLeafCascadesAtomically ==
    /\ [](\A p \in Procs : pc[p] = "cascade" =>
            /\ writer = p /\ readers = {}
            /\ \A q \in Procs : pc[q] \notin {"read", "save"})
    /\ [][\A p \in Procs : DeleteApplied(p) =>
            /\ call[p].id \notin DOMAIN config'.leaf_mcps
            /\ DOMAIN config'.agents = DOMAIN config.agents
            /\ \A a \in DOMAIN config.agents :
                /\ call[p].id \notin IdsOf(config'.agents[a].allowed_mcp_ids)
                /\ config'.agents[a].allowed_mcp_ids =
                       Without(config.agents[a].allowed_mcp_ids, call[p].id)]_vars

C8_Witness ==
    \E p \in Procs :
        /\ call[p].op = "delete_leaf_mcp" /\ call[p].id = "m1"
        /\ call[p].edited /\ pc[p] = "audit"
        /\ DOMAIN config.agents = {"m1", "m2"}
        /\ config.agents["m1"].allowed_mcp_ids = <<"m2">>
        /\ config.agents["m2"].allowed_mcp_ids = <<>>

\* C9: a mutating call appends at most one audit entry, and exactly one
\* when its append succeeds; the entry of a delete_leaf_mcp is the Delete of
\* that leaf, however many allow-lists the cascade changed; no two entries
\* of the log share a call.
C9_OneAuditEntryPerCall ==
    /\ \A i \in DOMAIN appended, j \in DOMAIN appended : appended[i].id = appended[j].id => i = j
    /\ \A p \in Procs : Mutating(p) =>
        /\ Cardinality(Entries(appended, call[p].uid)) = call[p].audited
        /\ call[p].audited <= 1
        /\ (pc[p] \in {"slock", "save"} \/ call[p].saved) => call[p].audited = 1
        /\ call[p].op = "delete_leaf_mcp" =>
             \A i \in Entries(appended, call[p].uid) :
                /\ appended[i].action = "Delete"
                /\ appended[i].target = [kind |-> "LeafMcp", id |-> call[p].id]

C9_Witness ==
    \E p \in Procs :
        /\ call[p].op = "delete_leaf_mcp" /\ call[p].id = "m1"
        /\ call[p].audited = 1 /\ call[p].saved
        /\ Cardinality(Entries(appended, call[p].uid)) = 1
        /\ Len(log) = Len(SeedLog) + 1
        /\ DOMAIN config.agents = {"m1", "m2"}
        /\ config.agents["m1"].allowed_mcp_ids = <<"m2">>
        /\ config.agents["m2"].allowed_mcp_ids = <<>>

\* Task p computes its remote projection.
Projected(p) == Reading(p, "get_agent_remote_config") /\ pc'[p] = "done"

\* The value an allowed id resolves to: the leaf entry if there is one, else
\* the agent.
Resolved(c, id) ==
    IF id \in DOMAIN c.leaf_mcps THEN LeafToValue(c.leaf_mcps[id])
    ELSE AgentToValue(c.agents[id])

\* C10: get_agent_remote_config returns NotFound for an unknown agent; else
\* the keys of the returned map are exactly the ids of the agent's allow-list
\* that name a leaf entry or an agent, each resolved to the leaf entry if
\* there is one.
C10_ProjectionWithinAllowList ==
    [][\A p \in Procs : Projected(p) =>
          IF call[p].id \notin DOMAIN config.agents
          THEN call'[p].result = "NotFound" /\ call'[p].value = None
          ELSE /\ call'[p].result = "Ok"
               /\ call'[p].value[1].agent_id = call[p].id
               /\ LET mcps == call'[p].value[1].mcps
                      allowed == IdsOf(config.agents[call[p].id].allowed_mcp_ids) IN
                  /\ DOMAIN mcps =
                        {id \in allowed : McpExists(config, id)}
                  /\ DOMAIN mcps \subseteq allowed
                  /\ \A id \in DOMAIN mcps : mcps[id] = Resolved(config, id)]_vars

C10_Witness ==
    \E p \in Procs :
        /\ call[p].op = "get_agent_remote_config" /\ call[p].id = "m1"
        /\ pc[p] = "done" /\ call[p].result = "Ok"
        /\ "m1" \in DOMAIN config.agents /\ "m1" \in DOMAIN config.leaf_mcps
        /\ config.agents["m1"].allowed_mcp_ids = <<"m1", "m2">>
        /\ ~McpExists(config, "m2")
        /\ DOMAIN call[p].value[1].mcps = {"m1"}
        /\ call[p].value[1].mcps["m1"] = LeafToValue(config.leaf_mcps["m1"])

\* Task p applies the edit of its call at this step.
EditApplied(p) ==
    ~call[p].edited /\ call'[p].edited /\ call'[p].uid = call[p].uid

\* C11: every successful in-memory edit sets last_modified to the clock's
\* value, last_modified never decreases, and a step that applies no edit (a
\* read, a failed validation, an audit append, a save) leaves it unchanged.
C11_LastModifiedMonotone ==
    [][/\ config'.metadata.last_modified >= config.metadata.last_modified
       /\ \A p \in Procs : EditApplied(p) => config'.metadata.last_modified = now
       /\ (\A p \in Procs : ~EditApplied(p)) =>
              config'.metadata.last_modified = config.metadata.last_modified]_vars

C11_Witness ==
    \E p \in Procs :
        /\ Mutating(p) /\ call[p].edited
        /\ now > 0
        /\ config.metadata.last_modified = now
        /\ config.metadata.created_at < config.metadata.last_modified

\* The get and list operations.
GetOps == {"get_leaf_mcp", "get_agent"}
ListOps == {"list_leaf_mcps", "list_agents"}

\* C12 as claimed: while the audit store accepts every append, each get or
\* list call that has returned Ok owns exactly one entry of the log, with
\* action Read.
C12_EveryReadAudited ==
    \A p \in Procs :
        (/\ call[p].op \in GetOps \cup ListOps
         /\ pc[p] = "done" /\ call[p].result = "Ok"
         /\ faults = 0) =>
            /\ Cardinality(Entries(appended, call[p].uid)) = 1
            /\ \A i \in Entries(appended, call[p].uid) : appended[i].action = "Read"

\* Task p takes a step of its handler.
Steps(p) == pc[p] \notin {"idle", "done"} /\ pc'[p] # pc[p]

\* The map a get looks its id up in.
StoredMap(p) ==
    IF call[p].op = "get_leaf_mcp" THEN config.leaf_mcps ELSE config.agents

\* C13: a get of an existing id takes the stored resource under the reader
\* side and returns it with Ok whether its Read audit entry is appended or
\* the append fails; no step of a read operation changes the in-memory
\* configuration or the persisted document.
C13_ReadSurvivesAuditFailure ==
    [][\A p \in Procs :
        /\ (call[p].op \in ReadOps /\ Steps(p)) =>
               config' = config /\ persisted' = persisted
        /\ (call[p].op \in GetOps /\ pc[p] = "read" /\ Steps(p)
              /\ call[p].id \in DOMAIN StoredMap(p)) =>
               /\ pc'[p] = "raudit"
               /\ call'[p].value = Some(StoredMap(p)[call[p].id])
        /\ (pc[p] = "raudit" /\ Steps(p)) =>
               /\ pc'[p] = "done"
               /\ call'[p].result = "Ok"
               /\ call[p].value # None
               /\ call'[p].value = call[p].value]_vars

C13_Witness ==
    \E p \in Procs :
        /\ call[p].op = "get_leaf_mcp" /\ call[p].id = "m1"
        /\ pc[p] = "done" /\ call[p].result = "Ok"
        /\ call[p].value = Some(SeedLeaf)
        /\ call[p].audited = 0 /\ faults > 0
        /\ ~HasEntry(appended, call[p].uid)

\* The operations that edit the leaf map.
LeafEditOps == {"create_leaf_mcp", "update_leaf_mcp", "delete_leaf_mcp"}

\* Task p ends the first part of a critical section that edits leaf entry id.
LeafEditStep(p, id) ==
    pc[p] = "edit" /\ Steps(p) /\ call[p].op \in LeafEditOps /\ call[p].id = id

\* The uids of the calls of an earlier run.
SeedUids == {SeedLog[i].id : i \in DOMAIN SeedLog}

\* C14: create_leaf_mcp(id, cfg) on an absent id stores cfg under id as it
\* was given; a step that is not the edit of a leaf operation on id leaves
\* the entry of id as it is; get_leaf_mcp(id) returns the entry stored under
\* id.  So a get after a create with no mutation of id in between returns cfg;
\* in particular it does when the create is the only edit applied so far.
C14_CreateThenGetReturnsConfig ==
    [][\A p \in Procs :
        /\ (Editing(p, "create_leaf_mcp") /\ Steps(p)
              /\ call[p].id \notin DOMAIN config.leaf_mcps) =>
               /\ call'[p].edited
               /\ call[p].id \in DOMAIN config'.leaf_mcps
               /\ config'.leaf_mcps[call[p].id] = call[p].leaf[1]
        /\ \A id \in DOMAIN config.leaf_mcps :
              (\A q \in Procs : ~LeafEditStep(q, id)) =>
                  /\ id \in DOMAIN config'.leaf_mcps
                  /\ config'.leaf_mcps[id] = config.leaf_mcps[id]
        /\ (Reading(p, "get_leaf_mcp") /\ Steps(p)) =>
              /\ call[p].id \in DOMAIN config.leaf_mcps =>
                    call'[p].value = Some(config.leaf_mcps[call[p].id])
              /\ \A q \in Procs :
                    (/\ call[q].op = "create_leaf_mcp" /\ call[q].edited
                     /\ call[q].id = call[p].id
                     /\ applied \ SeedUids = {call[q].uid}) =>
                        call'[p].value = call[q].leaf]_vars

C14_Witness ==
    \E p \in Procs, q \in Procs :
        /\ call[q].op = "create_leaf_mcp" /\ call[q].edited
        /\ call[q].leaf[1].id # call[q].id
        /\ call[p].op = "get_leaf_mcp" /\ call[p].id = call[q].id
        /\ pc[p] = "done" /\ call[p].result = "Ok"
        /\ call[p].value = call[q].leaf

CreateOps == {"create_leaf_mcp", "create_agent"}

\* The map a create inserts into.
CreateMap(p) ==
    IF call[p].op = "create_leaf_mcp" THEN config.leaf_mcps ELSE config.agents

\* Tasks p and q make the same create call.
SameCreate(p, q) ==
    /\ p # q
    /\ call[p].op \in CreateOps /\ call[q].op = call[p].op
    /\ call[p].id = call[q].id
    /\ call[p].allowed = call[q].allowed

\* Task p has left the critical section of its call.
PastEdit(p) == pc[p] \in {"audit", "slock", "save", "done"}

\* C15: a create whose id is already a key of its map returns AlreadyExists
\* and changes nothing in the configuration; of two creates of the same id
\* that ran with no other edit applied, at most one applies its edit, and
\* once one has applied the other returns AlreadyExists.
C15_DuplicateCreateRejected ==
    /\ [][\A p \in Procs :
            (/\ pc[p] = "edit" /\ Steps(p) /\ call[p].op \in CreateOps
             /\ call[p].id \in DOMAIN CreateMap(p)) =>
                /\ call'[p].result = "AlreadyExists"
                /\ ~call'[p].edited
                /\ config' = config]_vars
    /\ [](\A p \in Procs, q \in Procs : SameCreate(p, q) =>
            /\ ~(/\ call[p].edited /\ call[q].edited
                 /\ applied \ SeedUids = {call[p].uid, call[q].uid})
            /\ (/\ call[q].edited /\ applied \ SeedUids = {call[q].uid}
                /\ PastEdit(p)) =>
                   call[p].result = "AlreadyExists")

\* The two creates overlap: the loser has returned while the winner has not
\* yet appended its audit entry.
C15_Witness ==
    \E p \in Procs, q \in Procs :
        /\ SameCreate(p, q)
        /\ call[q].edited /\ pc[q] = "audit"
        /\ call[p].uid < call[q].uid
        /\ pc[p] = "done" /\ call[p].result = "AlreadyExists"

\* C16: create_leaf_mcp and create_agent with an id that is empty or only
\* whitespace return InvalidFormat at once, without asking for the lock and
\* without a change of the configuration; no key of the leaf map or of the
\* agent map is empty or only whitespace.
C16_BlankIdRejected ==
    /\ \A p \in Procs :
            (call[p].op \in CreateOps /\ call[p].id \in BlankIds) =>
                /\ pc[p] = "done"
                /\ call[p].result = "InvalidFormat"
                /\ writer # p /\ p \notin readers
                /\ ~call[p].edited /\ call[p].audited = 0 /\ ~call[p].saved
                /\ call[p].uid \notin applied \cup stored
                /\ ~HasEntry(appended, call[p].uid) /\ ~HasEntry(log, call[p].uid)
    /\ (DOMAIN config.leaf_mcps \cup DOMAIN config.agents) \cap BlankIds = {}

C16_Witness ==
    \E p \in Procs, q \in Procs :
        /\ call[p].op = "create_leaf_mcp" /\ call[p].id = " "
        /\ call[q].op = "create_agent" /\ call[q].id = ""
        /\ pc[p] = "done" /\ call[p].result = "InvalidFormat" /\ ~call[p].edited
        /\ pc[q] = "done" /\ call[q].result = "InvalidFormat" /\ ~call[q].edited

GrantOps == {"create_agent", "add_agent_allowed_mcp"}

\* The target ids a call refers to.
Referenced(p) ==
    IF call[p].op = "create_agent" THEN IdsOf(call[p].allowed) ELSE {call[p].mcp_id}

\* Task p ends the critical section of a create_agent or add_agent_allowed_mcp.
GrantStep(p) == pc[p] = "edit" /\ Steps(p) /\ call[p].op \in GrantOps

\* Some target the call of p refers to is neither a leaf entry nor an agent.
TargetMissing(p) == \E t \in Referenced(p) : ~McpExists(config, t)

\* C17 as claimed: create_agent and add_agent_allowed_mcp apply their edit
\* only if every target they refer to exists in the state the edit is applied
\* in, and otherwise return InvalidFormat.
C17_MissingTargetIsInvalidFormat ==
    [][\A p \in Procs : GrantStep(p) =>
          /\ call'[p].edited => ~TargetMissing(p)
          /\ TargetMissing(p) => call'[p].result = "InvalidFormat"]_vars

\* C17, amended: create_agent and add_agent_allowed_mcp apply their edit
\* only if every target they refer to exists in the state the edit is applied
\* in, which the task holds the writer side of; with a missing target
\* add_agent_allowed_mcp returns InvalidFormat, and create_agent returns
\* InvalidFormat unless its agent id is already present, which it reports
\* first as AlreadyExists; in each case nothing changes.  A create_agent of
\* an absent id whose targets all exist applies, whatever failed before.
C17_TargetsCheckedInCriticalSection ==
    [][\A p \in Procs : GrantStep(p) =>
          /\ writer = p
          /\ call'[p].edited =>
                /\ ~TargetMissing(p)
                /\ \A t \in Referenced(p) : McpExists(config', t)
          /\ TargetMissing(p) =>
                /\ config' = config /\ ~call'[p].edited
                /\ call'[p].result =
                      IF call[p].op = "create_agent" /\ call[p].id \in DOMAIN config.agents
                      THEN "AlreadyExists" ELSE "InvalidFormat"
          /\ (/\ call[p].op = "create_agent" /\ ~TargetMissing(p)
              /\ call[p].id \notin DOMAIN config.agents) =>
                /\ call'[p].edited
                /\ config'.agents[call[p].id].allowed_mcp_ids = call[p].allowed]_vars

\* A create_agent that applied with a target created in this run.
C17_Witness ==
    \E p \in Procs, q \in Procs :
        /\ applied \cap SeedUids = {}
        /\ call[q].op = "create_leaf_mcp" /\ call[q].edited
        /\ call[p].op = "create_agent" /\ call[p].allowed = <<call[q].id>>
        /\ call[p].edited
        /\ call[p].id \in DOMAIN config.agents

\* Task p ends the critical section of op.
EditStep(p, op) == Editing(p, op) /\ Steps(p)

\* The allow-list of agent id, <<>> if there is no such agent.
AllowList(c, id) ==
    IF id \in DOMAIN c.agents THEN c.agents[id].allowed_mcp_ids ELSE <<>>

\* C18 as claimed: add_agent_allowed_mcp(a, t) with t already in the list of
\* a returns AlreadyExists, remove_agent_allowed_mcp(a, t) with t not in the
\* list of a returns NotFound, and the list is unchanged in both cases.
C18_AddPresentRemoveAbsent ==
    [][\A p \in Procs :
        /\ (/\ EditStep(p, "add_agent_allowed_mcp")
            /\ call[p].id \in DOMAIN config.agents
            /\ call[p].mcp_id \in IdsOf(AllowList(config, call[p].id))) =>
               /\ call'[p].result = "AlreadyExists"
               /\ AllowList(config', call[p].id) = AllowList(config, call[p].id)
        /\ (/\ EditStep(p, "remove_agent_allowed_mcp")
            /\ call[p].id \in DOMAIN config.agents
            /\ call[p].mcp_id \notin IdsOf(AllowList(config, call[p].id))) =>
               /\ call'[p].result = "NotFound"
               /\ AllowList(config', call[p].id) = AllowList(config, call[p].id)]_vars

\* The operations that address one resource by its id, and the map they look
\* the id up in.
LeafByIdOps == {"get_leaf_mcp", "update_leaf_mcp", "delete_leaf_mcp"}
AgentByIdOps ==
    {"get_agent", "update_agent", "delete_agent", "remove_agent_allowed_mcp",
     "get_agent_remote_config"}

KeyMap(p) ==
    IF call[p].op \in LeafByIdOps THEN config.leaf_mcps ELSE config.agents

\* C19: get, update and delete of a leaf entry or an agent,
\* remove_agent_allowed_mcp and get_agent_remote_config, called with an id
\* that is not a key of the map they address, return NotFound and change
\* nothing.
C19_MissingIdIsNotFound ==
    [][\A p \in Procs :
        (/\ pc[p] \in {"edit", "read"} /\ Steps(p)
         /\ call[p].op \in LeafByIdOps \cup AgentByIdOps
         /\ call[p].id \notin DOMAIN KeyMap(p)) =>
            /\ pc'[p] = "done"
            /\ call'[p].result = "NotFound"
            /\ ~call'[p].edited
            /\ config' = config /\ log' = log /\ persisted' = persisted]_vars

C19_Witness ==
    \E p \in Procs, q \in Procs :
        /\ call[p].op = "delete_agent" /\ call[p].id \notin DOMAIN config.agents
        /\ pc[p] = "done" /\ call[p].result = "NotFound" /\ ~call[p].edited
        /\ call[q].op = "get_agent_remote_config"
        /\ call[q].id \notin DOMAIN config.agents
        /\ pc[q] = "done" /\ call[q].result = "NotFound"

\* The resource a successful update of p wrote, before and after, serialized.
UpdatedOld(p) ==
    IF call[p].op = "update_leaf_mcp" THEN LeafToValue(config.leaf_mcps[call[p].id]).o
    ELSE AgentToValue(config.agents[call[p].id]).o

UpdatedNew(p) ==
    IF call[p].op = "update_leaf_mcp" THEN LeafToValue(config'.leaf_mcps[call[p].id]).o
    ELSE AgentToValue(config'.agents[call[p].id]).o

\* C20: a successful update_leaf_mcp or update_agent with an object patch
\* is a shallow merge: each field of the resource that the patch names has
\* the patch's value as a whole afterwards, each other field keeps its
\* value, and no other resource changes.
C20_UpdateIsShallowMerge ==
    [][\A p \in Procs :
        (/\ pc[p] = "edit" /\ Steps(p)
         /\ call[p].op \in {"update_leaf_mcp", "update_agent"}
         /\ call[p].updates.k = "obj"
         /\ call'[p].edited) =>
            /\ \A key \in DOMAIN UpdatedOld(p) :
                  UpdatedNew(p)[key] =
                      IF key \in DOMAIN call[p].updates.o
                      THEN call[p].updates.o[key] ELSE UpdatedOld(p)[key]
            /\ DOMAIN config'.leaf_mcps = DOMAIN config.leaf_mcps
            /\ DOMAIN config'.agents = DOMAIN config.agents
            /\ \A id \in DOMAIN config.leaf_mcps :
                  (call[p].op = "update_leaf_mcp" /\ id = call[p].id)
                      \/ config'.leaf_mcps[id] = config.leaf_mcps[id]
            /\ \A id \in DOMAIN config.agents :
                  (call[p].op = "update_agent" /\ id = call[p].id)
                      \/ config'.agents[id] = config.agents[id]]_vars

\* The transport of leaf m1 was replaced as a whole; its description was not
\* named and is as before.
C20_Witness ==
    \E p \in Procs :
        /\ call[p].op = "update_leaf_mcp" /\ call[p].id = "m1" /\ call[p].edited
        /\ call[p].updates.k = "obj"
        /\ DOMAIN call[p].updates.o = {"transport"}
        /\ "m1" \in DOMAIN config.leaf_mcps
        /\ config.leaf_mcps["m1"].transport = Https("u2")
        /\ config.leaf_mcps["m1"].description = SeedLeaf.description
        /\ config.leaf_mcps["m1"].id = "m1"

UpdateOps == {"update_leaf_mcp", "update_agent"}

\* The merged document of the update of p does not deserialize into the
\* typed resource.
ReconstructFails(p) ==
    /\ call[p].updates.k = "obj"
    /\ IF call[p].op = "update_leaf_mcp"
       THEN ~LeafOk(MergedLeaf(config.leaf_mcps[call[p].id], call[p].updates))
       ELSE ~AgentOk(MergedAgent(config.agents[call[p].id], call[p].updates))

\* C21: an update whose merged document cannot be deserialized returns
\* InvalidFormat and is over: the configuration, last_modified included, is
\* as before, and the call never appends an audit entry and never persists.
C21_FailedUpdateChangesNothing ==
    /\ [][\A p \in Procs :
            (/\ pc[p] = "edit" /\ Steps(p) /\ call[p].op \in UpdateOps
             /\ call[p].id \in DOMAIN KeyMap(p)
             /\ ReconstructFails(p)) =>
                /\ call'[p].result = "InvalidFormat"
                /\ pc'[p] = "done" /\ ~call'[p].edited
                /\ config' = config
                /\ log' = log /\ persisted' = persisted /\ stored' = stored]_vars
    /\ [](\A p \in Procs :
            (call[p].op \in UpdateOps /\ call[p].result = "InvalidFormat") =>
                /\ pc[p] = "done"
                /\ call[p].audited = 0 /\ ~call[p].saved
                /\ ~HasEntry(appended, call[p].uid)
                /\ call[p].uid \notin applied \cup stored)

C21_Witness ==
    \E p \in Procs, q \in Procs :
        /\ call[p].op = "update_leaf_mcp" /\ call[p].id = "m1"
        /\ call[p].result = "InvalidFormat" /\ pc[p] = "done"
        /\ call[q].op = "update_agent" /\ call[q].id = "m1"
        /\ call[q].result = "InvalidFormat" /\ pc[q] = "done"
        /\ config = SeedConfig /\ log = SeedLog /\ persisted = Some(SeedConfig)
        /\ now > 0

\* Task p writes the document at this step.
SaveDone(p) == pc[p] = "save" /\ ~call[p].saved /\ call'[p].saved

\* C22: every document written to the Config Store is the whole in-memory
\* configuration of one instant: what a save has serialized so far is still
\* what the configuration holds, no writer is in while a save is under way,
\* and the document a save writes equals the configuration at that instant,
\* which the step does not change.
C22_SavedDocumentIsOneSnapshot ==
    /\ [](\A p \in Procs : (pc[p] = "save" /\ call[p].content # None) =>
            /\ call[p].content = Some(config.leaf_mcps)
            /\ writer = 0 /\ p \in readers)
    /\ [][\A p \in Procs : SaveDone(p) =>
            /\ persisted' = Some(config)
            /\ config' = config]_vars

\* The save of one call has written the edit of another call that is itself
\* in the middle of its save.
C22_Witness ==
    \E p \in Procs, q \in Procs :
        /\ p # q /\ Mutating(p) /\ Mutating(q)
        /\ call[p].saved
        /\ pc[q] = "save" /\ call[q].content # None
        /\ call[q].edited /\ call[q].uid \in stored
        /\ call[p].uid \in stored
        /\ persisted = Some(config)
        /\ config # SeedConfig


\* The place of the entry of call uid in the log l (0 when it has none).
EntryAt(l, uid) ==
    IF HasEntry(l, uid) THEN CHOOSE i \in Entries(l, uid) : TRUE ELSE 0

\* C23: the persisted document is the one written by the save that ran
\* last: only a completed save changes the document, and each completed
\* save replaces it by its own document and becomes the last save, whether
\* or not its audit entry is the newest one in the log.
C23_LastSaveWins ==
    /\ [](lastsave # None => persisted # None /\ lastsave[1] \in stored)
    /\ [][/\ (persisted' # persisted \/ lastsave' # lastsave) =>
                \E p \in Procs : SaveDone(p)
          /\ \A p \in Procs : SaveDone(p) =>
                /\ persisted' = Some(Document(call[p].content[1], config))
                /\ lastsave' = Some(call[p].uid)]_vars

\* Two concurrent mutating calls have both saved, the last save was made by
\* the call whose audit entry comes first in the log, and the document
\* holds both edits.
C23_Witness ==
    \E p \in Procs, q \in Procs :
        /\ p # q /\ Mutating(p) /\ Mutating(q)
        /\ call[p].saved /\ call[q].saved
        /\ lastsave = Some(call[p].uid)
        /\ HasEntry(appended, call[p].uid) /\ HasEntry(appended, call[q].uid)
        /\ EntryAt(appended, call[p].uid) < EntryAt(appended, call[q].uid)
        /\ {call[p].uid, call[q].uid} \subseteq stored
        /\ persisted = Some(config)
        /\ persisted # Some(SeedConfig)


\* Sequence l is a prefix of sequence m.
IsPrefix(l, m) == Len(l) <= Len(m) /\ SubSeq(m, 1, Len(l)) = l

\* C24: the audit log is append-only: every step of the service leaves the
\* log as it is or adds exactly one entry to its end, so the log of a state
\* is an extension of the log of the state before, and no entry already
\* appended is removed, moved or changed.
C24_LogAppendOnly ==
    [][/\ IsPrefix(log, log')
       /\ Len(log') <= Len(log) + 1]_vars


----------------------------------------------------------------------------
(* The audit query. *)

\* Two characters that are the same letter, whatever their case.
SameLetter(a, b) ==
    \/ a = b
    \/ \E k \in DOMAIN UpperLetters : {a, b} = {UpperLetters[k], LowerLetters[k]}

\* pattern occurs in str, letter for letter, whatever the case.
OccursIn(pattern, str) ==
    \E i \in 0..(Len(str) - Len(pattern)) :
        \A k \in 1..Len(pattern) : SameLetter(str[i + k], pattern[k])

\* Entry e satisfies every filter that query q supplies.
Satisfies(e, q) ==
    /\ q.action_filter # None => OccursIn(q.action_filter[1], DebugAction(e.action))
    /\ q.target_filter # None => OccursIn(q.target_filter[1], target_str(e.target.kind))
    /\ q.actor_filter # None =>
          e.actor # None /\ OccursIn(q.actor_filter[1], e.actor[1])

\* The places in the input of the entries that satisfy the filters.
Matching(q) == {i \in DOMAIN q.entries : Satisfies(q.entries[i], q)}

Unfiltered(q) ==
    q.action_filter = None /\ q.target_filter = None /\ q.actor_filter = None

\* Entry a stands before entry b in the order of the result: it is more
\* recent, or as recent and earlier in the input.
Before(a, b) ==
    \/ a.timestamp > b.timestamp
    \/ a.timestamp = b.timestamp /\ a.id < b.id

Min(a, b) == IF a < b THEN a ELSE b

\* C25: with no limit the audit query returns exactly the entries of the
\* input that satisfy all supplied filters (each a case-insensitive substring
\* match, an entry with no actor never satisfying an actor filter): every
\* entry returned is an input entry that matches, every matching entry is
\* returned exactly once, and with no filter every input entry is returned.
C25_FilterExact ==
    (query.result # None /\ query.limit = None) =>
        LET r == query.result[1] IN
        /\ \A i \in DOMAIN r :
              r[i].id \in Matching(query) /\ r[i] = query.entries[r[i].id]
        /\ \A m \in Matching(query) :
              Cardinality({i \in DOMAIN r : r[i].id = m}) = 1
        /\ Unfiltered(query) => Len(r) = Len(query.entries)

\* A query with all three filters and no limit has been answered; some
\* entries matched, and an entry without an actor that matched the action
\* and the target filter was left out.
C25_Witness ==
    /\ query.result # None /\ query.limit = None
    /\ query.action_filter # None /\ query.target_filter # None
    /\ query.actor_filter # None
    /\ query.result[1] # <<>>
    /\ \E i \in DOMAIN query.entries :
          /\ query.entries[i].actor = None
          /\ Satisfies(query.entries[i], [query EXCEPT !.actor_filter = None])
          /\ \A j \in DOMAIN query.result[1] : query.result[1][j].id # i

\* C26: the result of the audit query is in descending order of timestamp,
\* and entries with equal timestamps are in the order they had in the input.
C26_SortedStable ==
    query.result # None =>
        \A i \in DOMAIN query.result[1], j \in DOMAIN query.result[1] :
            i < j => Before(query.result[1][i], query.result[1][j])

\* An answer of three entries in which the newest was last in the input and
\* the two others share a timestamp.
C26_Witness ==
    /\ query.result # None /\ Len(query.result[1]) = 3
    /\ query.result[1][1].id = 3
    /\ query.result[1][2].timestamp = query.result[1][3].timestamp
    /\ query.result[1][2].id = 1 /\ query.result[1][3].id = 2

\* C27: the limit is applied after filtering and sorting: with limit n the
\* result holds min(n, number of matching entries) entries, all matching and
\* distinct, in the order of the result, and every matching entry left out
\* comes after all of them in that order; for Create, Create, Update,
\* Delete, Read at the times 1 to 5 the action filter "create" gives the
\* entries 2 then 1, and with limit 1 entry 2 alone.
C27_LimitAfterSort ==
    query.result # None =>
        LET r == query.result[1]
            ids == {r[i].id : i \in DOMAIN r} IN
        /\ query.limit # None =>
              /\ Len(r) = Min(query.limit[1], Cardinality(Matching(query)))
              /\ Cardinality(ids) = Len(r) /\ ids \subseteq Matching(query)
              /\ \A i \in DOMAIN r : r[i] = query.entries[r[i].id]
              /\ \A i \in DOMAIN r, j \in DOMAIN r : i < j => Before(r[i], r[j])
              /\ \A m \in Matching(query) \ ids, i \in DOMAIN r :
                    Before(r[i], query.entries[m])
        /\ (/\ query.entries = ExampleEntries
            /\ query.action_filter = Some(<<"c", "r", "e", "a", "t", "e">>)
            /\ query.target_filter = None /\ query.actor_filter = None) =>
              /\ query.limit = None => r = <<ExampleEntries[2], ExampleEntries[1]>>
              /\ query.limit = Some(1) => r = <<ExampleEntries[2]>>

\* The example query with limit 1 has been answered with the Create entry of
\* time 2.
C27_Witness ==
    /\ query.entries = ExampleEntries
    /\ query.action_filter = Some(<<"c", "r", "e", "a", "t", "e">>)
    /\ query.target_filter = None /\ query.actor_filter = None
    /\ query.limit = Some(1)
    /\ query.result = Some(<<ExampleEntries[2]>>)


----------------------------------------------------------------------------
(* The stores read back. *)

\* C28: a load from the Config Store returns, without an error, a
\* configuration equal to the one given to the last successful save: equal
\* to the in-memory configuration at the moment a save completes, and to the
\* document the file holds at any time; when there is no document it returns
\* the default empty configuration, not an error.
C28_LoadReturnsLastSaved ==
    /\ [](load_config(persisted, now) =
            [result |-> "Ok",
             value |-> IF persisted = None THEN Some(DefaultConfig(now))
                       ELSE persisted])
    /\ [](persisted = None => lastsave = None /\ stored = {})
    /\ [][\A p \in Procs : SaveDone(p) =>
            load_config(persisted', now') = [result |-> "Ok", value |-> Some(config)]]_vars

\* A save has completed after the clock moved, the document holds leaves and
\* agents and is not the seeded one, and a load returns it as it was saved.
C28_Witness ==
    \E p \in Procs :
        /\ Mutating(p) /\ call[p].saved /\ lastsave = Some(call[p].uid)
        /\ persisted = Some(config) /\ config # SeedConfig
        /\ config.leaf_mcps # EmptyMap /\ config.agents # EmptyMap
        /\ config.metadata.last_modified < now
        /\ load_config(persisted, now).value = Some(config)


\* Task p makes the one step of its backup.
BackupStep(p) == pc[p] = "backup" /\ pc'[p] = "done"

LoadStep(p) == pc[p] = "load" /\ pc'[p] # "load"

\* Task p returns from load_entries through initialize().
InitializeReturn(p) == pc[p] \in {"init", "initw"} /\ pc'[p] = "done"

\* C30: a load of the audit log returns exactly the entries appended so far,
\* each once and in the order of their appends; when the log does not exist
\* yet nothing has been appended, and the load returns the empty sequence
\* and no error.
C30_LoadReturnsAppended ==
    [][\A p \in Procs :
          /\ LoadStep(p) =>
                IF log_exists
                THEN call'[p].result = "Ok" /\ call'[p].value = Some(appended)
                ELSE appended = <<>>
          /\ InitializeReturn(p) =>
                call'[p].result = "Ok" /\ call'[p].value = Some(<<>>)]_vars

\* What holds of a load: it returns the entries the file holds at that
\* moment, parsed back from their lines, each once and in order.
LoadReturnsFile ==
    [][\A p \in Procs :
          /\ (LoadStep(p) /\ log_exists) =>
                call'[p].result = "Ok" /\ call'[p].value = Some(log)
          /\ InitializeReturn(p) =>
                call'[p].result = "Ok" /\ call'[p].value = Some(<<>>)]_vars


----------------------------------------------------------------------------
(* The request boundary. *)

\* The status the admin handler of task p answers for its finished call.
Response(p) == respond(call[p].route, call[p].confirmed, call[p].result)

\* C31: at the request boundary every admin handler answers the
\* missing-resource status for a core NotFound, the rejected-request status
\* for a request without its confirmation flag, and the internal-failure
\* status for every other core error.
C31_BoundaryMapping ==
    \A p \in Procs : (pc[p] = "done" /\ call[p].route \in AdminOps) =>
        /\ ~call[p].confirmed => Response(p) = "BAD_REQUEST"
        /\ (call[p].confirmed /\ call[p].result = "NotFound") =>
              Response(p) = "NOT_FOUND"
        /\ (call[p].confirmed /\ call[p].result \notin {"Ok", "NotFound"}) =>
              Response(p) = "INTERNAL_SERVER_ERROR"


----------------------------------------------------------------------------
(* Progress. *)

\* Task p is inside a handler.
Running(p) == pc[p] \notin {"idle", "done"}

LockFree == writer = 0 /\ readers = {}

\* C32: under a fair scheduler and with storage calls that return, every
\* started operation eventually returns a result, and whenever the lock is
\* held it is eventually free again; no interleaving of readers, writers and
\* saves blocks for ever.
C32_EveryCallReturns ==
    /\ \A p \in Procs : Running(p) ~> (pc[p] = "done" /\ call[p].result # "pending")
    /\ ~LockFree ~> LockFree

\* A writer is in its critical section while the other task waits for the
\* reader side to persist its own edit.
C32_Witness ==
    \E p \in Procs, q \in Procs :
        /\ pc[p] = "edit" /\ writer = p
        /\ pc[q] = "slock" /\ call[q].edited


\* C33: the allow-list of an agent is an ordered set: in every reachable
\* state no agent's allowed_mcp_ids holds the same id at two positions.
C33_AllowListHasNoDuplicate ==
    \A a \in DOMAIN config.agents :
        \A i \in DOMAIN config.agents[a].allowed_mcp_ids :
            \A j \in DOMAIN config.agents[a].allowed_mcp_ids :
                config.agents[a].allowed_mcp_ids[i] = config.agents[a].allowed_mcp_ids[j]
                    => i = j


\* Some task is in the middle of its critical section.
EditInProgress == \E q \in Procs : pc[q] \in {"edit", "cascade"}

\* C34: get_agent_remote_config computes one projection from one
\* configuration state under the reader side of the lock: it holds the guard
\* while no writer is inside an edit, the allow-list, the resolved targets
\* and the last_updated stamp it returns are those of that state, the
\* configuration does not change while the guard is held, and the call
\* changes neither the configuration nor the persisted document nor the
\* audit log.
C34_ProjectionFromOneState ==
    /\ [](\A p \in Procs : call[p].op = "get_agent_remote_config" =>
              ~HasEntry(appended, call[p].uid) /\ ~HasEntry(log, call[p].uid))
    /\ [][\A p \in Procs :
            /\ Reading(p, "get_agent_remote_config") =>
                  /\ p \in readers /\ writer = 0 /\ ~EditInProgress
                  /\ config' = config
            /\ Projected(p) =>
                  /\ persisted' = persisted /\ log' = log /\ appended' = appended
                  /\ stored' = stored /\ applied' = applied
                  /\ call'[p].result = "Ok" =>
                        LET out == call'[p].value[1]
                            agent == config.agents[call[p].id] IN
                        /\ out.metadata.last_updated = config.metadata.last_modified
                        /\ out.metadata.version = config.metadata.version
                        /\ DOMAIN out.mcps =
                              {id \in IdsOf(agent.allowed_mcp_ids) : McpExists(config, id)}
                        /\ \A id \in DOMAIN out.mcps : out.mcps[id] = Resolved(config, id)]_vars

\* A projection returned while another task's applied edit, stamped later
\* than the persisted document, is not yet persisted.
C34_Witness ==
    \E p \in Procs, q \in Procs :
        /\ call[p].op = "get_agent_remote_config" /\ pc[p] = "done"
        /\ call[p].result = "Ok"
        /\ DOMAIN call[p].value[1].mcps # {}
        /\ Mutating(q) /\ call[q].edited /\ pc[q] \in {"audit", "slock"}
        /\ call[q].uid < call[p].uid
        /\ persisted # None /\ persisted[1].metadata.last_modified < config.metadata.last_modified
        /\ call[p].value[1].metadata.last_updated = config.metadata.last_modified


\* Some task is inside save_configuration, between read().await and the
\* return of save_config.
Saving == {p \in Procs : pc[p] = "save"}

\* C35: a task holds the reader side of the lock from the start of its
\* persist step to its end, no in-memory edit happens while a persist step
\* is in progress, and in the state a successful save leaves the persisted
\* document equals the in-memory configuration and holds every applied edit.
C35_SaveExcludesEdits ==
    /\ [](\A p \in Saving : p \in readers /\ writer = 0 /\ ~EditInProgress)
    /\ [][/\ Saving # {} => config' = config /\ applied' = applied
          /\ \A p \in Procs : SaveDone(p) =>
                /\ call'[p].result = "Ok"
                /\ persisted' = Some(config')
                /\ stored' = applied']_vars

\* A save has completed whose document already holds the edit of another
\* task that has not yet reached the end of its own persist step.
C35_Witness ==
    \E p \in Procs, q \in Procs :
        /\ p # q
        /\ Mutating(p) /\ call[p].saved /\ pc[p] = "done" /\ call[p].result = "Ok"
        /\ lastsave = Some(call[p].uid)
        /\ persisted = Some(config) /\ config # SeedConfig
        /\ Mutating(q) /\ call[q].edited /\ pc[q] \in {"audit", "slock"}
        /\ call[q].uid \in stored


\* Every started operation has returned.
Quiescent == \A p \in Procs : pc[p] \in {"idle", "done"}

\* The edits applied by calls made since the service started.
AppliedSinceStart == {uid \in applied : uid > 0}

\* C36: when no audit append and no persist has failed, all started
\* operations have returned and some mutating operation has applied its
\* edit, the persisted document equals the in-memory configuration and holds
\* every applied edit.
C36_QuiescentDocumentIsCurrent ==
    (faults = 0 /\ Quiescent /\ AppliedSinceStart # {}) =>
        /\ persisted = Some(config)
        /\ stored = applied
        /\ lastsave # None /\ lastsave[1] \in AppliedSinceStart

\* Two concurrent mutating calls have both returned Ok without a failure,
\* the edit of the second having been applied before the first one saved.
C36_Witness ==
    /\ faults = 0 /\ Quiescent
    /\ \E p \in Procs, q \in Procs :
        /\ p # q
        /\ Mutating(p) /\ Mutating(q)
        /\ call[p].result = "Ok" /\ call[q].result = "Ok"
        /\ call[p].saved /\ call[q].saved
        /\ AppliedSinceStart = {call[p].uid, call[q].uid}
        /\ EntryAt(appended, call[p].uid) < EntryAt(appended, call[q].uid)
        /\ lastsave = Some(call[p].uid)
    /\ persisted = Some(config)


\* The applied edits of returned calls whose audit append failed: applied,
\* without an entry, and no longer on the way to one.
AuditLost ==
    {uid \in AppliedSinceStart :
        /\ ~HasEntry(appended, uid)
        /\ \A p \in Procs : call[p].uid = uid => pc[p] = "done"}

\* C37: the failure of an audit append leaves the in-memory edit in place,
\* the failing call does not persist, and the next successful persist step
\* of any other call writes the whole configuration, that edit included,
\* although the log holds no entry for it.
C37_UnauditedEditIsPersisted ==
    [][/\ \A p \in Procs : (Mutating(p) /\ AuditFailed(p)) =>
            /\ config' = config /\ persisted' = persisted
            /\ call[p].uid \in AuditLost'
       /\ AuditLost \subseteq AuditLost'
       /\ \A q \in Procs : SaveDone(q) =>
            /\ call[q].uid \notin AuditLost
            /\ persisted' = Some(config)
            /\ AuditLost \subseteq stored']_vars

\* The persisted document holds agent m1, created by a call whose audit
\* append failed and written by the persist step of a later call; the log
\* has no entry for the creation.
C37_Witness ==
    \E p \in Procs, q \in Procs :
        /\ p # q
        /\ call[p].op = "create_agent" /\ call[p].id = "m1"
        /\ pc[p] = "done" /\ call[p].result = "Io" /\ ~call[p].saved
        /\ call[p].uid \in AuditLost /\ call[p].uid \in stored
        /\ Mutating(q) /\ call[q].saved /\ lastsave = Some(call[q].uid)
        /\ call[p].uid < call[q].uid
        /\ persisted # None /\ "m1" \in DOMAIN persisted[1].agents
        /\ ~HasEntry(log, call[p].uid)


\* The entries of l that record a change.
ChangeEntries(l) == {i \in DOMAIN l : l[i].action # "Read"}

\* C38: every audit entry whose action is not Read was appended by a call
\* whose in-memory edit was already applied: the log never holds a Create,
\* Update, Delete, AddAllowedMcp or RemoveAllowedMcp entry of a call that
\* failed validation or has not applied its edit yet, and the step that
\* appends such an entry is made by a call that has applied its edit and
\* released the writer side.
C38_ChangeEntriesFollowEdits ==
    /\ \A i \in ChangeEntries(appended) : appended[i].id \in applied
    /\ \A i \in ChangeEntries(log) : log[i].id \in applied
    /\ \A p \in Procs :
          /\ (Mutating(p) /\ (~call[p].edited \/ call[p].result \in ValidationErrors)) =>
                ~HasEntry(appended, call[p].uid) /\ ~HasEntry(log, call[p].uid)
          /\ (Mutating(p) /\ HasEntry(appended, call[p].uid)) =>
                /\ call[p].edited /\ call[p].uid \in applied
                /\ pc[p] \notin {"wlock", "edit", "cascade"} /\ writer # p

\* The log holds the Delete entry of an applied delete_leaf_mcp, appended
\* after the edit, while a mutating call that failed validation has none.
C38_Witness ==
    \E p \in Procs, q \in Procs :
        /\ p # q
        /\ Mutating(p) /\ pc[p] = "done" /\ call[p].result \in ValidationErrors
        /\ ~HasEntry(appended, call[p].uid)
        /\ call[q].op = "delete_leaf_mcp" /\ call[q].edited
        /\ HasEntry(appended, call[q].uid)
        /\ appended[EntryAt(appended, call[q].uid)].action = "Delete"
        /\ call[q].id \notin DOMAIN config.leaf_mcps


\* C39: add_agent_allowed_mcp looks the target up before the agent: with a
\* target that names neither a leaf entry nor an agent it returns
\* InvalidFormat whether or not the agent exists, it returns NotFound exactly
\* when the target exists and the agent does not, and in both cases nothing
\* changes.
C39_TargetCheckedBeforeAgent ==
    [][\A p \in Procs : EditStep(p, "add_agent_allowed_mcp") =>
          /\ ~McpExists(config, call[p].mcp_id) => call'[p].result = "InvalidFormat"
          /\ call'[p].result = "NotFound" <=>
                (McpExists(config, call[p].mcp_id) /\ call[p].id \notin DOMAIN config.agents)
          /\ call'[p].result \in {"InvalidFormat", "NotFound"} =>
                /\ pc'[p] = "done" /\ writer' = 0
                /\ config' = config /\ persisted' = persisted
                /\ log' = log /\ appended' = appended /\ applied' = applied]_vars

\* add_agent_allowed_mcp has returned InvalidFormat for a target and an
\* agent that are both missing.
C39_Witness ==
    \E p \in Procs :
        /\ call[p].op = "add_agent_allowed_mcp" /\ pc[p] = "done"
        /\ call[p].result = "InvalidFormat"
        /\ ~McpExists(config, call[p].mcp_id)
        /\ call[p].id \notin DOMAIN config.agents
        /\ ~call[p].edited /\ writer = 0


\* The update of p is about to be applied to an existing resource with a
\* patch that is not a JSON object.
NonObjectUpdate(p) ==
    /\ call[p].op \in UpdateOps
    /\ call[p].updates.k # "obj"

\* C40: update_leaf_mcp and update_agent of an existing id with a patch that
\* is not an object leave every leaf entry and every agent as they were,
\* set last_modified to the clock's value and go on: the audit entry they
\* append is an Update entry whose details are the patch, and the call that
\* returns Ok has persisted the configuration.
C40_NonObjectPatchIsEmptyUpdate ==
    /\ [][\A p \in Procs :
            /\ (NonObjectUpdate(p) /\ pc[p] = "edit" /\ Steps(p)
                    /\ call[p].id \in DOMAIN KeyMap(p)) =>
                  /\ call'[p].edited /\ pc'[p] = "audit"
                  /\ call'[p].result = "pending"
                  /\ config'.leaf_mcps = config.leaf_mcps
                  /\ config'.agents = config.agents
                  /\ config'.metadata.last_modified = now
                  /\ call[p].uid \in applied'
            /\ (NonObjectUpdate(p) /\ pc[p] = "audit" /\ Steps(p)
                    /\ Len(appended') > Len(appended)) =>
                  /\ appended'[Len(appended')] =
                        [id |-> call[p].uid, action |-> "Update",
                         target |-> AuditTarget(call[p]), details |-> call[p].updates]
                  /\ pc'[p] = "slock"
            /\ (NonObjectUpdate(p) /\ SaveDone(p)) =>
                  /\ call'[p].result = "Ok"
                  /\ persisted' = Some(config)]_vars
    /\ [](\A p \in Procs :
            (NonObjectUpdate(p) /\ call[p].result = "Ok") =>
                /\ call[p].edited /\ call[p].saved
                /\ Cardinality(Entries(appended, call[p].uid)) = 1
                /\ call[p].uid \in stored)

\* update_leaf_mcp("m1", "x") has returned Ok: leaf m1 is as it was stored,
\* last_modified has moved to the clock's value, the log has the Update
\* entry with the patch and the document is the configuration.
C40_Witness ==
    \E p \in Procs :
        /\ call[p].op = "update_leaf_mcp" /\ call[p].id = "m1"
        /\ call[p].updates = JStr("x")
        /\ pc[p] = "done" /\ call[p].result = "Ok"
        /\ "m1" \in DOMAIN config.leaf_mcps
        /\ config.leaf_mcps["m1"] = SeedLeaf
        /\ config.metadata.last_modified = 1
        /\ SeedConfig.metadata.last_modified = 0
        /\ HasEntry(appended, call[p].uid)
        /\ appended[EntryAt(appended, call[p].uid)].action = "Update"
        /\ appended[EntryAt(appended, call[p].uid)].details = JStr("x")
        /\ persisted = Some(config)

====
